---------------------------- MODULE Spec2Model ----------------------------
(***************************************************************************)
(* Model of the Jupiter API client (src/src/jupiter_api.py, class          *)
(* JupiterAPI): credential resolution, transaction signing, the request    *)
(* executor and the facade operations with their result envelopes.         *)
(*                                                                         *)
(* Text is modelled as follows.                                            *)
(*  - Opaque caller strings (mints, addresses, ids) are TLA+ strings; the   *)
(*    Python value None is the string NoneVal, blank strings are "" and    *)
(*    " ".                                                                 *)
(*  - Strings that the code parses are sequences of character codes.       *)
(*    Base64 text uses 0..63 for the 64 alphabet characters (the code is   *)
(*    the character's 6-bit value), PadCh for '=', BadCh for a character   *)
(*    outside the alphabet and SpaceCh for a blank.                        *)
(*  - A message built with an f-string is the sequence of its pieces, so   *)
(*    f"{prefix}{str(e)}" is <<prefix>> \o e.                               *)
(* The transaction wire format of the solders library is scaled down: a    *)
(* signature is SigLen bytes and an account key is KeyLen bytes.           *)
(***************************************************************************)
EXTENDS Integers, Sequences, FiniteSets, TLC

\* ------------------------------------------------------------------ bounds
SigLen == 1
KeyLen == 1

\* --------------------------------------------------------------- constants
NoneVal == "<None>"
PadCh == 64
BadCh == 65
SpaceCh == 66

DEV_REFERRER_WALLET == "8cK8hCyRQCp52nVuPLnLL71afkRvRcFibSwHMjGFT8bm"
REFERRAL_FEE == "255"
DefaultRequestTimeout == 30
base_url == "https://lite-api.jup.ag/ultra/v1"
trigger_base_url == "https://lite-api.jup.ag/trigger/v1"

\* ----------------------------------------------------------------- helpers
Ok(v) == [ok |-> TRUE, val |-> v]
Raise(m) == [ok |-> FALSE, err |-> m]

RECURSIVE SumSeq(_)
SumSeq(s) == IF s = <<>> THEN 0 ELSE Head(s) + SumSeq(Tail(s))

RECURSIVE Flatten(_)
Flatten(ss) == IF ss = <<>> THEN <<>> ELSE Head(ss) \o Flatten(Tail(ss))

Zeros(n) == [i \in 1..n |-> 0]

\* str.strip() leaves nothing: the text is empty or only blanks.
IsBlankStr(s) == s \in {"", " "}
\* Python's `not s or not s.strip()` for an Optional[str].
MissingStr(s) == s = NoneVal \/ IsBlankStr(s)

\* The same test on text held as a sequence of character codes.
NoneCodes == << -1 >>
IsBlankCodes(s) == \A i \in 1..Len(s) : s[i] = SpaceCh
MissingCodes(s) == s = NoneCodes \/ IsBlankCodes(s)

\* ------------------------------------------------------------------ base64
\* base64.b64encode: three bytes become four 6-bit characters; a final
\* group of one or two bytes is padded with '='.
RECURSIVE B64Encode(_)
B64Encode(b) ==
  IF Len(b) = 0 THEN <<>>
  ELSE IF Len(b) = 1 THEN
    << b[1] \div 4, (b[1] % 4) * 16, PadCh, PadCh >>
  ELSE IF Len(b) = 2 THEN
    << b[1] \div 4, (b[1] % 4) * 16 + (b[2] \div 16), (b[2] % 16) * 4, PadCh >>
  ELSE
    << b[1] \div 4, (b[1] % 4) * 16 + (b[2] \div 16),
       (b[2] % 16) * 4 + (b[3] \div 64), b[3] % 64 >>
    \o B64Encode(SubSeq(b, 4, Len(b)))

IsData(c) == c \in 0..63

\* One group of four characters, decoded; last is TRUE for the final group,
\* the only one that may carry padding.
B64Group(g, last) ==
  IF IsData(g[1]) /\ IsData(g[2]) /\ IsData(g[3]) /\ IsData(g[4]) THEN
    Ok(<< g[1] * 4 + (g[2] \div 16),
          (g[2] % 16) * 16 + (g[3] \div 4),
          (g[3] % 4) * 64 + g[4] >>)
  ELSE IF last /\ IsData(g[1]) /\ IsData(g[2]) /\ IsData(g[3]) /\ g[4] = PadCh THEN
    Ok(<< g[1] * 4 + (g[2] \div 16), (g[2] % 16) * 16 + (g[3] \div 4) >>)
  ELSE IF last /\ IsData(g[1]) /\ IsData(g[2]) /\ g[3] = PadCh /\ g[4] = PadCh THEN
    Ok(<< g[1] * 4 + (g[2] \div 16) >>)
  ELSE Raise(<<"binascii.Error">>)

\* base64.b64decode(s, validate=True) on text whose length is a multiple
\* of four.
RECURSIVE B64Decode(_)
B64Decode(s) ==
  IF Len(s) = 0 THEN Ok(<<>>)
  ELSE IF Len(s) < 4 THEN Raise(<<"binascii.Error">>)
  ELSE
    LET g == B64Group(SubSeq(s, 1, 4), Len(s) = 4)
        rest == B64Decode(SubSeq(s, 5, Len(s)))
    IN IF ~g.ok THEN g
       ELSE IF ~rest.ok THEN rest
       ELSE Ok(g.val \o rest.val)


\* ------------------------------------------------- transactions (solders)
\* A transaction is [signatures: sequence of SigLen-byte signatures,
\* message: [numReq, keys, payload]].  numReq is the header's
\* num_required_signatures, keys the static account keys (KeyLen bytes
\* each), payload the rest of the message (blockhash and instructions).
\* Wire form: <<n>> sig_1..sig_n <<numReq, k>> key_1..key_k <<p>> payload.
SerializeMessage(m) ==
  << m.numReq, Len(m.keys) >> \o Flatten(m.keys) \o << Len(m.payload) >> \o m.payload

\* bytes(VersionedTransaction)
SerializeTx(tx) ==
  << Len(tx.signatures) >> \o Flatten(tx.signatures) \o SerializeMessage(tx.message)

Chunks(b, n, w) == [i \in 1..n |-> SubSeq(b, (i - 1) * w + 1, i * w)]

\* VersionedTransaction.from_bytes: bincode deserialisation, which fails on
\* truncated input and ignores trailing bytes.
ParseTx(b) ==
  IF Len(b) < 1 THEN Raise(<<"ParseError">>)
  ELSE LET n == b[1]
           mo == 1 + n * SigLen           \* offset of the message
       IN IF Len(b) < mo + 2 THEN Raise(<<"ParseError">>)
          ELSE LET k == b[mo + 2]
                   po == mo + 2 + k * KeyLen   \* offset of the payload
               IN IF Len(b) < po + 1 THEN Raise(<<"ParseError">>)
                  ELSE LET p == b[po + 1]
                       IN IF Len(b) < po + 1 + p THEN Raise(<<"ParseError">>)
                          ELSE Ok([signatures |-> Chunks(SubSeq(b, 2, mo), n, SigLen),
                                   message |->
                                     [numReq |-> b[mo + 1],
                                      keys |-> Chunks(SubSeq(b, mo + 3, po), k, KeyLen),
                                      payload |-> SubSeq(b, po + 2, po + 1 + p)]])

\* Keypair.pubkey(): the public key bytes derived from the secret seed.
PubkeyBytes(seed) == [i \in 1..KeyLen |-> seed]
\* str(keypair.pubkey()): the address text.
PubkeyStr(seed) == IF seed = 1 THEN "PubkeyOfSeed1" ELSE "PubkeyOfSeed2"

\* Ed25519 signature of the message bytes: a deterministic function of the
\* secret and the message, never the all-zero placeholder.
SignBytes(seed, msg) == [i \in 1..SigLen |-> 1 + ((seed * 7 + SumSeq(msg) + i) % 255)]

\* Mutant: the signature slot is left as the empty placeholder.
NewSignedTx_m(m, seed) ==
  IF Len(m.keys) < m.numReq THEN Raise(<<"SignerError: invalid message">>)
  ELSE IF m.numReq < 1 THEN Raise(<<"SignerError: too many signers">>)
  ELSE IF m.numReq > 1 THEN Raise(<<"SignerError: not enough signers">>)
  ELSE IF m.keys[1] # PubkeyBytes(seed) THEN Raise(<<"SignerError: keypair-pubkey mismatch">>)
  ELSE Ok([signatures |-> << Zeros(SigLen) >>, message |-> m])

\* VersionedTransaction(message, [keypair]) (solana VersionedTransaction
\* try_new): the signers given must be exactly the message's required
\* signers; the result carries one signature per required signer.
NewSignedTx(m, seed) ==
  IF Len(m.keys) < m.numReq THEN Raise(<<"SignerError: invalid message">>)
  ELSE IF m.numReq < 1 THEN Raise(<<"SignerError: too many signers">>)
  ELSE IF m.numReq > 1 THEN Raise(<<"SignerError: not enough signers">>)
  ELSE IF m.keys[1] # PubkeyBytes(seed) THEN Raise(<<"SignerError: keypair-pubkey mismatch">>)
  ELSE Ok([signatures |-> << SignBytes(seed, SerializeMessage(m)) >>, message |-> m])

\* ------------------------------------------------------ credential resolver
\* The configured secret: kind "none" (variable unset), "empty" (""),
\* "b58" (base58 text of a key), "b64" (base64 of raw key bytes) or "bad"
\* (decodes under neither); seed identifies the key it encodes.
NoKey == [kind |-> "none", seed |-> 0]
PrivateKeys ==
  { NoKey, [kind |-> "empty", seed |-> 0], [kind |-> "bad", seed |-> 0],
    [kind |-> "b58", seed |-> 1], [kind |-> "b64", seed |-> 2] }

\* The text of a configured secret, as it stands in self.private_key.
SecretText(pk) ==
  CASE pk.kind = "b58" -> "SecretBase58TextOfSeed1"
    [] pk.kind = "b64" -> "SecretBase64TextOfSeed2"
    [] pk.kind = "bad" -> "SecretTextThatDoesNotDecode"
    [] OTHER -> ""

\* Keypair.from_base58_string(private_key)
FromBase58String(pk) ==
  IF pk.kind = "b58" THEN Ok(pk.seed) ELSE Raise(<<"base58 decode error">>)
\* Keypair.from_bytes(base64.b64decode(private_key))
FromB64Bytes(pk) ==
  IF pk.kind = "b64" THEN Ok(pk.seed) ELSE Raise(<<"key bytes error">>)


\* ------------------------------------------------------------------- state
VARIABLES
  client_side_mode,  \* custody mode, fixed at construction
  private_key,       \* self.private_key, the configured secret; assignable
  request_timeout,   \* self.request_timeout, seconds, fixed at construction
  _keypair,          \* self._keypair: 0 for None, else the cached key's seed
  _solana_client,    \* self._solana_client: TRUE when a handle is cached
  pc,                \* "idle", "waiting" (suspended in the request) or "done"
  op,                \* the operation in progress or just finished
  args,              \* its arguments
  request,           \* the request handed to make_http_request by this call
  result,            \* what the caller observes: a return value or a raise
  locals,            \* local variables that live across the suspension
  response,          \* what the transport did with the request
  signer_calls,      \* sign_transaction invocations made by this call
  http_calls,        \* make_http_request invocations made by this call
  decode_calls       \* secret decoding attempts made by this call

vars == << client_side_mode, private_key, request_timeout, _keypair, _solana_client, pc, op,
           args, request, locals, response, result, signer_calls,
           http_calls, decode_calls >>

NoArgs == [none |-> TRUE]
NoRequest == [method |-> "none"]
NoLocals == [none |-> TRUE]
NoResponse == [kind |-> "none"]
NoResult == [kind |-> "none"]
Returned(v) == [kind |-> "return", value |-> v]
Raised(m) == [kind |-> "raise", msg |-> m]

\* ------------------------------------------------------------- get_keypair
\* Spec-modelled guard of the client-signing mode.
KeypairDisabledMsg == << "Keypair access is disabled in client-side mode" >>

\* Mutant: the format error quotes the secret it could not decode.
get_keypair_server_leak_m(c, pk) ==
  IF c # 0 THEN [ok |-> TRUE, val |-> c, cache |-> c, decodes |-> 0]
  ELSE IF pk.kind \in {"none", "empty"} THEN
    [ok |-> FALSE, err |-> << "PRIVATE_KEY environment variable is required" >>,
     cache |-> c, decodes |-> 0]
  ELSE LET a == FromBase58String(pk)
       IN IF a.ok THEN [ok |-> TRUE, val |-> a.val, cache |-> a.val, decodes |-> 1]
          ELSE LET b == FromB64Bytes(pk)
               IN IF b.ok THEN [ok |-> TRUE, val |-> b.val, cache |-> b.val, decodes |-> 2]
                  ELSE [ok |-> FALSE,
                        err |-> << "Invalid PRIVATE_KEY format: ", SecretText(pk) >>,
                        cache |-> c, decodes |-> 2]

\* Mutant: the base64 decoding is tried first, base58 second.
get_keypair_server_order_m(c, pk) ==
  IF c # 0 THEN [ok |-> TRUE, val |-> c, cache |-> c, decodes |-> 0]
  ELSE IF pk.kind \in {"none", "empty"} THEN
    [ok |-> FALSE, err |-> << "PRIVATE_KEY environment variable is required" >>,
     cache |-> c, decodes |-> 0]
  ELSE LET a == FromB64Bytes(pk)
       IN IF a.ok THEN [ok |-> TRUE, val |-> a.val, cache |-> a.val, decodes |-> 1]
          ELSE LET b == FromBase58String(pk)
               IN IF b.ok THEN [ok |-> TRUE, val |-> b.val, cache |-> b.val, decodes |-> 2]
                  ELSE [ok |-> FALSE, err |-> << "Invalid PRIVATE_KEY format: " >> \o a.err,
                        cache |-> c, decodes |-> 2]

\* Mutant: the cache is not consulted; every access decodes the secret.
get_keypair_server_m(c, pk) ==
  IF pk.kind \in {"none", "empty"} THEN
    [ok |-> FALSE, err |-> << "PRIVATE_KEY environment variable is required" >>,
     cache |-> c, decodes |-> 0]
  ELSE LET a == FromBase58String(pk)
       IN IF a.ok THEN [ok |-> TRUE, val |-> a.val, cache |-> a.val, decodes |-> 1]
          ELSE LET b == FromB64Bytes(pk)
               IN IF b.ok THEN [ok |-> TRUE, val |-> b.val, cache |-> b.val, decodes |-> 2]
                  ELSE [ok |-> FALSE, err |-> << "Invalid PRIVATE_KEY format: " >> \o b.err,
                        cache |-> c, decodes |-> 2]

\* get_keypair on cache c with secret pk: the keypair (its seed) or the
\* error, the cache afterwards and the number of decodings attempted.
get_keypair_server(c, pk) ==
  IF c # 0 THEN [ok |-> TRUE, val |-> c, cache |-> c, decodes |-> 0]
  ELSE IF pk.kind \in {"none", "empty"} THEN
    [ok |-> FALSE, err |-> << "PRIVATE_KEY environment variable is required" >>,
     cache |-> c, decodes |-> 0]
  ELSE LET a == FromBase58String(pk)
       IN IF a.ok THEN [ok |-> TRUE, val |-> a.val, cache |-> a.val, decodes |-> 1]
          ELSE LET b == FromB64Bytes(pk)
               IN IF b.ok THEN [ok |-> TRUE, val |-> b.val, cache |-> b.val, decodes |-> 2]
                  ELSE [ok |-> FALSE, err |-> << "Invalid PRIVATE_KEY format: " >> \o b.err,
                        cache |-> c, decodes |-> 2]

\* Mutant: the client-signing guard is missing.
get_keypair_m(csm, c, pk) == get_keypair_server(c, pk)

get_keypair(csm, c, pk) ==
  IF csm THEN [ok |-> FALSE, err |-> KeypairDisabledMsg, cache |-> c, decodes |-> 0]
  ELSE get_keypair_server(c, pk)

\* -------------------------------------------------------- sign_transaction
SignPrefix == "Failed to sign transaction: "
EmptyTxMsg == << "Transaction base64 string cannot be empty" >>
BadLenMsg ==
  << "Invalid base64-encoded string: number of data characters must be a multiple of 4" >>
BadB64Prefix == "Invalid base64-encoded string: "
EmptyBytesMsg == << "Transaction bytes cannot be empty after decoding" >>
BadTxPrefix == "Invalid transaction format: "

SignFail(cause, kp) ==
  [ok |-> FALSE, err |-> << SignPrefix >> \o cause, cause |-> cause,
   cache |-> kp.cache, decodes |-> kp.decodes, resolved |-> kp.resolved]

Unresolved(c) == [cache |-> c, decodes |-> 0, resolved |-> FALSE]

\* Mutant: the keypair is resolved only once the input has passed every
\* check.
sign_transaction_m(t, csm, c, pk) ==
  IF t = NoneCodes \/ Len(t) = 0 THEN SignFail(EmptyTxMsg, Unresolved(c))
  ELSE IF Len(t) % 4 # 0 THEN SignFail(BadLenMsg, Unresolved(c))
  ELSE
    LET d == B64Decode(t)
    IN IF ~d.ok THEN SignFail(<< BadB64Prefix >> \o d.err, Unresolved(c))
       ELSE IF Len(d.val) = 0 THEN SignFail(EmptyBytesMsg, Unresolved(c))
       ELSE LET u == ParseTx(d.val)
            IN IF ~u.ok THEN SignFail(<< BadTxPrefix >> \o u.err, Unresolved(c))
               ELSE LET kp == get_keypair(csm, c, pk)
                        st == [cache |-> kp.cache, decodes |-> kp.decodes,
                               resolved |-> TRUE]
                    IN IF ~kp.ok THEN SignFail(kp.err, st)
                       ELSE LET sg == NewSignedTx(u.val.message, kp.val)
                            IN IF ~sg.ok THEN SignFail(sg.err, st)
                               ELSE [ok |-> TRUE, val |-> B64Encode(SerializeTx(sg.val)),
                                     cache |-> st.cache, decodes |-> st.decodes,
                                     resolved |-> TRUE]

\* sign_transaction(t) with cache c and secret pk.  resolved tells whether
\* get_keypair was called.
sign_transaction(t, csm, c, pk) ==
  IF t = NoneCodes \/ Len(t) = 0 THEN SignFail(EmptyTxMsg, Unresolved(c))
  ELSE IF Len(t) % 4 # 0 THEN SignFail(BadLenMsg, Unresolved(c))
  ELSE
    LET kp == get_keypair(csm, c, pk)
        st == [cache |-> kp.cache, decodes |-> kp.decodes, resolved |-> TRUE]
    IN IF ~kp.ok THEN SignFail(kp.err, st)
       ELSE LET d == B64Decode(t)
            IN IF ~d.ok THEN SignFail(<< BadB64Prefix >> \o d.err, st)
               ELSE IF Len(d.val) = 0 THEN SignFail(EmptyBytesMsg, st)
               ELSE LET u == ParseTx(d.val)
                    IN IF ~u.ok THEN SignFail(<< BadTxPrefix >> \o u.err, st)
                       ELSE LET sg == NewSignedTx(u.val.message, kp.val)
                            IN IF ~sg.ok THEN SignFail(sg.err, st)
                               ELSE [ok |-> TRUE, val |-> B64Encode(SerializeTx(sg.val)),
                                     cache |-> st.cache, decodes |-> st.decodes,
                                     resolved |-> TRUE]


\* ------------------------------------------------------------------- int()
\* Amount text is a sequence of one-character strings; NoneAmt is None.
NoneAmt == << "<None>" >>
Digits == {"0", "1", "2", "3", "4", "5", "6", "7", "8", "9"}
DigitVal(ch) ==
  CASE ch = "0" -> 0 [] ch = "1" -> 1 [] ch = "2" -> 2 [] ch = "3" -> 3
    [] ch = "4" -> 4 [] ch = "5" -> 5 [] ch = "6" -> 6 [] ch = "7" -> 7
    [] ch = "8" -> 8 [] ch = "9" -> 9

\* `not amount or not amount.strip()`
MissingAmt(s) == s = NoneAmt \/ \A i \in 1..Len(s) : s[i] = " "

RECURSIVE LStrip(_)
LStrip(s) == IF s # <<>> /\ Head(s) = " " THEN LStrip(Tail(s)) ELSE s
RECURSIVE RStrip(_)
RStrip(s) == IF s # <<>> /\ s[Len(s)] = " " THEN RStrip(SubSeq(s, 1, Len(s) - 1)) ELSE s

RECURSIVE DigitsValue(_)
DigitsValue(s) ==
  IF s = <<>> THEN 0
  ELSE IF s[Len(s)] = "_" THEN DigitsValue(SubSeq(s, 1, Len(s) - 1))
  ELSE DigitsValue(SubSeq(s, 1, Len(s) - 1)) * 10 + DigitVal(s[Len(s)])

\* Digits with single underscores between them.
IsDigitRun(s) ==
  /\ s # <<>>
  /\ s[1] \in Digits /\ s[Len(s)] \in Digits
  /\ \A i \in 1..Len(s) : s[i] \in Digits \cup {"_"}
  /\ \A i \in 1..(Len(s) - 1) : ~(s[i] = "_" /\ s[i + 1] = "_")

\* int(s): surrounding blanks dropped, an optional sign, then digits;
\* anything else is a ValueError.
ParseInt(s) ==
  LET t == RStrip(LStrip(s))
      signed == t # <<>> /\ Head(t) \in {"+", "-"}
      body == IF signed THEN Tail(t) ELSE t
  IN IF ~IsDigitRun(body) THEN Raise(<< "ValueError" >>)
     ELSE Ok(IF signed /\ Head(t) = "-" THEN 0 - DigitsValue(body) ELSE DigitsValue(body))

\* -------------------------------------------------------- request executor
\* What the transport does with one request: a 200 with a JSON body, a 200
\* whose body is not JSON, another status with its body text, a timeout, or
\* another transport fault.
\* The timeout in force for one call: the timeout argument (an optional
\* integer, not given for None), else the configured request_timeout.
EffectiveTimeout(timeout, cfg) == IF timeout.given THEN timeout.n ELSE cfg

\* Mutant: the per-call timeout argument is ignored.
make_http_request_m(o, timeout, cfg) ==
  CASE o.kind = "ok" -> Ok(o.body)
    [] o.kind = "badjson" -> Raise(<< "Request failed: ", "JSON decode error" >>)
    [] o.kind = "status" ->
         Raise(<< "Request failed: ", "HTTP ", ToString(o.status), ": ", o.text >>)
    [] o.kind = "timeout" ->
         Raise(<< "Request timed out after ", ToString(cfg), " seconds" >>)
    [] o.kind = "fault" -> Raise(<< "Request failed: ", o.text >>)

\* make_http_request's mapping of that outcome, called with the optional
\* timeout argument on a client configured with request_timeout cfg.
make_http_request(o, timeout, cfg) ==
  CASE o.kind = "ok" -> Ok(o.body)
    [] o.kind = "badjson" -> Raise(<< "Request failed: ", "JSON decode error" >>)
    [] o.kind = "status" ->
         Raise(<< "Request failed: ", "HTTP ", ToString(o.status), ": ", o.text >>)
    [] o.kind = "timeout" ->
         Raise(<< "Request timed out after ",
                  ToString(EffectiveTimeout(timeout, cfg)), " seconds" >>)
    [] o.kind = "fault" -> Raise(<< "Request failed: ", o.text >>)

\* --------------------------------------------------------------- envelopes
\* Mutant: a failure envelope also carries an empty data field.
Fail_m(m) == [success |-> FALSE, error |-> m, data |-> NoneVal]

Fail(m) == [success |-> FALSE, error |-> m]
Success(d) == [success |-> TRUE, data |-> d]

\* The body of a facade operation, run up to its request, ends in one of
\* three ways: it returns an envelope, it suspends in one request, or it
\* raises.  Each carries the keypair cache and the call counters.
Done(env, c, dec, sg) ==
  [kind |-> "env", env |-> env, cache |-> c, decodes |-> dec, signs |-> sg]
Await(req, loc, c, dec, sg) ==
  [kind |-> "await", req |-> req, loc |-> loc, cache |-> c, decodes |-> dec, signs |-> sg]
Throw(err, c, dec, sg) ==
  [kind |-> "throw", err |-> err, cache |-> c, decodes |-> dec, signs |-> sg]

\* Spec-modelled texts of the client-signing mode.
RequiredMsg(param) == << param, " parameter is required in client-side mode" >>
DisabledMsg(opname) == << opname, " is disabled in client-side mode" >>

\* Mutant: the refusal does not name the parameter.
RequireAddress_m(param, c) ==
  [ok |-> FALSE, err |-> << "wallet address is required" >>, cache |-> c,
   decodes |-> 0, raised |-> FALSE]

\* Spec-modelled: client-signing mode and no address argument.
RequireAddress(param, c) ==
  [ok |-> FALSE, err |-> RequiredMsg(param), cache |-> c, decodes |-> 0, raised |-> FALSE]

\* Mutant: the explicit address is ignored and the keypair's is used.
ResolveActor_m(csm, param, value, c, pk) ==
  IF csm /\ value = NoneVal THEN RequireAddress(param, c)
  ELSE IF csm THEN
    [ok |-> TRUE, val |-> value, cache |-> c, decodes |-> 0, raised |-> FALSE]
  ELSE LET kp == get_keypair(csm, c, pk)
       IN IF kp.ok THEN [ok |-> TRUE, val |-> PubkeyStr(kp.val), cache |-> kp.cache,
                         decodes |-> kp.decodes, raised |-> FALSE]
          ELSE [ok |-> FALSE, err |-> kp.err, cache |-> kp.cache,
                decodes |-> kp.decodes, raised |-> TRUE]

\* The effective actor address: the explicit argument when one is given,
\* otherwise the resolved keypair's address (server-signing) or a failure
\* naming the parameter (client-signing).
ResolveActor(csm, param, value, c, pk) ==
  IF value # NoneVal THEN
    [ok |-> TRUE, val |-> value, cache |-> c, decodes |-> 0, raised |-> FALSE]
  ELSE IF csm THEN RequireAddress(param, c)
  ELSE LET kp == get_keypair(csm, c, pk)
       IN IF kp.ok THEN [ok |-> TRUE, val |-> PubkeyStr(kp.val), cache |-> kp.cache,
                         decodes |-> kp.decodes, raised |-> FALSE]
          ELSE [ok |-> FALSE, err |-> kp.err, cache |-> kp.cache,
                decodes |-> kp.decodes, raised |-> TRUE]

\* How a failed actor resolution ends the operation: get_keypair's error
\* is raised into the operation's except clause; the client-signing
\* "required" failure is returned as an envelope.
ActorFail(r) ==
  IF r.raised THEN Throw(r.err, r.cache, r.decodes, 0)
  ELSE Done(Fail(r.err), r.cache, r.decodes, 0)


\* ---------------------------------------------------------- Ultra operations
OpPrefix(o) ==
  CASE o = "get_swap_quote" -> "Failed to get swap quote: "
    [] o = "build_raw_swap_tx" -> "Failed to build raw swap transaction: "
    [] o = "submit_signed_transaction" -> "Failed to submit signed transaction: "
    [] o = "get_balances" -> "Failed to get balances: "
    [] o = "get_shield" -> "Failed to get shield information: "
    [] o = "search_token" -> "Failed to search tokens: "
    [] o = "create_limit_order" -> "Failed to create limit order: "
    [] o = "cancel_limit_order" -> "Failed to cancel order: "
    [] o = "cancel_limit_orders" -> "Failed to cancel orders: "
    [] o = "get_limit_orders" -> "Failed to get limit orders: "

\* The order request shared by get_swap_quote and build_raw_swap_tx.
OrderRequest(a, taker) ==
  [method |-> "GET", url |-> << base_url, "/order" >>,
   params |-> [inputMint |-> a.input_mint, outputMint |-> a.output_mint,
               amount |-> a.amount, taker |-> taker,
               referralAccount |-> DEV_REFERRER_WALLET,
               referralFee |-> REFERRAL_FEE]]

\* Mutant: an amount of zero is let through.
get_swap_quote_m(a, csm, c, pk) ==
  IF MissingStr(a.input_mint) THEN Done(Fail(<< "input_mint cannot be empty" >>), c, 0, 0)
  ELSE IF MissingStr(a.output_mint) THEN
    Done(Fail(<< "output_mint cannot be empty" >>), c, 0, 0)
  ELSE IF MissingAmt(a.amount) THEN Done(Fail(<< "amount cannot be empty" >>), c, 0, 0)
  ELSE LET n == ParseInt(a.amount)
       IN IF ~n.ok THEN Done(Fail(<< "amount must be a valid number" >>), c, 0, 0)
          ELSE IF n.val < 0 THEN
            Done(Fail(<< "amount must be a positive number" >>), c, 0, 0)
          ELSE LET r == ResolveActor(csm, "user_address", a.user_address, c, pk)
               IN IF ~r.ok THEN ActorFail(r)
                  ELSE Await(OrderRequest(a, r.val), NoLocals, r.cache, r.decodes, 0)

\* get_swap_quote up to its request.  a.user_address is the address
\* argument of the client-signing mode, NoneVal in server-signing mode.
get_swap_quote(a, csm, c, pk) ==
  IF MissingStr(a.input_mint) THEN Done(Fail(<< "input_mint cannot be empty" >>), c, 0, 0)
  ELSE IF MissingStr(a.output_mint) THEN
    Done(Fail(<< "output_mint cannot be empty" >>), c, 0, 0)
  ELSE IF MissingAmt(a.amount) THEN Done(Fail(<< "amount cannot be empty" >>), c, 0, 0)
  ELSE LET n == ParseInt(a.amount)
       IN IF ~n.ok THEN Done(Fail(<< "amount must be a valid number" >>), c, 0, 0)
          ELSE IF n.val <= 0 THEN
            Done(Fail(<< "amount must be a positive number" >>), c, 0, 0)
          ELSE LET r == ResolveActor(csm, "user_address", a.user_address, c, pk)
               IN IF ~r.ok THEN ActorFail(r)
                  ELSE Await(OrderRequest(a, r.val), NoLocals, r.cache, r.decodes, 0)

\* Mutant: the execute request always goes to the swap base path.
ExecuteRequest_m(base, signed, request_id) ==
  [method |-> "POST", url |-> << base_url, "/execute" >>,
   json |-> [signedTransaction |-> signed, requestId |-> request_id]]

ExecuteRequest(base, signed, request_id) ==
  [method |-> "POST", url |-> << base, "/execute" >>,
   json |-> [signedTransaction |-> signed, requestId |-> request_id]]

\* Mutant: the refusal names the swap operation whatever was called.
execute_disabled_m(opname, c) ==
  Done(Fail(DisabledMsg("execute_swap_transaction")), c, 0, 0)

\* Spec-modelled: the execute operations in client-signing mode.
execute_disabled(opname, c) == Done(Fail(DisabledMsg(opname)), c, 0, 0)

\* Mutant: a signing failure is reported but the unsigned transaction is
\* sent all the same.
execute_transaction_m(opname, base, a, csm, c, pk) ==
  IF csm THEN execute_disabled(opname, c)
  ELSE IF MissingCodes(a.transaction) THEN
    Throw(<< "Transaction cannot be empty" >>, c, 0, 0)
  ELSE IF MissingStr(a.request_id) THEN
    Throw(<< "Request ID cannot be empty" >>, c, 0, 0)
  ELSE LET sg == sign_transaction(a.transaction, csm, c, pk)
       IN Await(ExecuteRequest(base, IF sg.ok THEN sg.val ELSE a.transaction,
                               a.request_id),
                NoLocals, sg.cache, sg.decodes, 1)

\* execute_swap_transaction and execute_limit_order up to their request;
\* they differ in the operation name and the base path.
execute_transaction(opname, base, a, csm, c, pk) ==
  IF csm THEN execute_disabled(opname, c)
  ELSE IF MissingCodes(a.transaction) THEN
    Throw(<< "Transaction cannot be empty" >>, c, 0, 0)
  ELSE IF MissingStr(a.request_id) THEN
    Throw(<< "Request ID cannot be empty" >>, c, 0, 0)
  ELSE LET sg == sign_transaction(a.transaction, csm, c, pk)
       IN IF ~sg.ok THEN
            Done(Fail(<< SignPrefix >> \o sg.err), sg.cache, sg.decodes, 1)
          ELSE Await(ExecuteRequest(base, sg.val, a.request_id), NoLocals,
                     sg.cache, sg.decodes, 1)

\* get_balances up to its request.
get_balances(a, csm, c, pk) ==
  LET r == ResolveActor(csm, "wallet_address", a.wallet_address, c, pk)
  IN IF ~r.ok THEN ActorFail(r)
     ELSE IF IsBlankStr(r.val) THEN
       Done(Fail(<< "wallet_address cannot be empty" >>), r.cache, r.decodes, 0)
     ELSE Await([method |-> "GET", url |-> << base_url, "/balances/", r.val >>],
                [wallet_address |-> r.val], r.cache, r.decodes, 0)

\* Mutant: only an absent or empty mints is refused, not a blank one.
get_shield_m(a, c) ==
  IF a.mints \in {NoneVal, ""} THEN
    Done(Fail(<< "mints parameter cannot be empty" >>), c, 0, 0)
  ELSE Await([method |-> "GET", url |-> << base_url, "/shield" >>,
              params |-> [mints |-> a.mints]], NoLocals, c, 0, 0)

get_shield(a, c) ==
  IF MissingStr(a.mints) THEN Done(Fail(<< "mints parameter cannot be empty" >>), c, 0, 0)
  ELSE Await([method |-> "GET", url |-> << base_url, "/shield" >>,
              params |-> [mints |-> a.mints]], NoLocals, c, 0, 0)

search_token(a, c) ==
  IF MissingStr(a.query) THEN Done(Fail(<< "search query cannot be empty" >>), c, 0, 0)
  ELSE Await([method |-> "GET", url |-> << base_url, "/search" >>,
              params |-> [query |-> a.query]], [query |-> a.query], c, 0, 0)

\* Spec-modelled: build_raw_swap_tx, the client-signing quote.
build_raw_swap_tx(a, c) ==
  IF MissingStr(a.input_mint) THEN Done(Fail(<< "input_mint cannot be empty" >>), c, 0, 0)
  ELSE IF MissingStr(a.output_mint) THEN
    Done(Fail(<< "output_mint cannot be empty" >>), c, 0, 0)
  ELSE IF MissingAmt(a.amount) THEN Done(Fail(<< "amount cannot be empty" >>), c, 0, 0)
  ELSE IF MissingStr(a.user_address) THEN
    Done(Fail(<< "user_address cannot be empty" >>), c, 0, 0)
  ELSE LET n == ParseInt(a.amount)
       IN IF ~n.ok THEN Done(Fail(<< "amount must be a valid number" >>), c, 0, 0)
          ELSE IF n.val <= 0 THEN
            Done(Fail(<< "amount must be a positive number" >>), c, 0, 0)
          ELSE Await(OrderRequest(a, a.user_address),
                     [user_address |-> a.user_address], c, 0, 0)

\* Mutant: the relay posts to the limit-order base path.
submit_signed_transaction_m(a, c) ==
  IF MissingCodes(a.signed_transaction) THEN
    Done(Fail(<< "signed_transaction cannot be empty" >>), c, 0, 0)
  ELSE IF MissingStr(a.request_id) THEN
    Done(Fail(<< "request_id cannot be empty" >>), c, 0, 0)
  ELSE Await(ExecuteRequest(trigger_base_url, a.signed_transaction, a.request_id),
             NoLocals, c, 0, 0)

\* Spec-modelled: submit_signed_transaction relays a caller-signed
\* transaction.
submit_signed_transaction(a, c) ==
  IF MissingCodes(a.signed_transaction) THEN
    Done(Fail(<< "signed_transaction cannot be empty" >>), c, 0, 0)
  ELSE IF MissingStr(a.request_id) THEN
    Done(Fail(<< "request_id cannot be empty" >>), c, 0, 0)
  ELSE Await(ExecuteRequest(base_url, a.signed_transaction, a.request_id),
             NoLocals, c, 0, 0)


\* -------------------------------------------------------- Trigger operations
\* Optional[int] arguments: NoInt is None.
NoInt == [given |-> FALSE, n |-> 0]
SomeInt(k) == [given |-> TRUE, n |-> k]
\* Optional[List[str]] arguments: NoList is None.
NoList == [given |-> FALSE, list |-> << >>]
SomeList(l) == [given |-> TRUE, list |-> l]

\* The params object of createOrder: the two amounts, the optional
\* slippage and expiry, and the referral fee.
OrderParams(a) ==
  LET keys == {"makingAmount", "takingAmount", "feeBps"}
                \cup (IF a.slippage_bps.given /\ a.slippage_bps.n > 0
                      THEN {"slippageBps"} ELSE {})
                \cup (IF a.expired_at.given THEN {"expiredAt"} ELSE {})
  IN [k \in keys |->
        CASE k = "makingAmount" -> a.making_amount
          [] k = "takingAmount" -> a.taking_amount
          [] k = "slippageBps" -> << ToString(a.slippage_bps.n) >>
          [] k = "expiredAt" -> << ToString(a.expired_at.n) >>
          [] k = "feeBps" -> << REFERRAL_FEE >>]

create_limit_order(a, csm, c, pk) ==
  IF MissingStr(a.input_mint) THEN Done(Fail(<< "input_mint cannot be empty" >>), c, 0, 0)
  ELSE IF MissingStr(a.output_mint) THEN
    Done(Fail(<< "output_mint cannot be empty" >>), c, 0, 0)
  ELSE IF MissingAmt(a.making_amount) THEN
    Done(Fail(<< "making_amount cannot be empty" >>), c, 0, 0)
  ELSE IF MissingAmt(a.taking_amount) THEN
    Done(Fail(<< "taking_amount cannot be empty" >>), c, 0, 0)
  ELSE LET m == ParseInt(a.making_amount)
           t == ParseInt(a.taking_amount)
       IN IF ~m.ok \/ ~t.ok THEN Done(Fail(<< "amounts must be valid numbers" >>), c, 0, 0)
          ELSE IF m.val <= 0 \/ t.val <= 0 THEN
            Done(Fail(<< "amounts must be positive numbers" >>), c, 0, 0)
          ELSE LET r == ResolveActor(csm, "user_address", a.user_address, c, pk)
               IN IF ~r.ok THEN ActorFail(r)
                  ELSE Await([method |-> "POST",
                              url |-> << trigger_base_url, "/createOrder" >>,
                              json |-> [inputMint |-> a.input_mint,
                                        outputMint |-> a.output_mint,
                                        maker |-> r.val, payer |-> r.val,
                                        params |-> OrderParams(a),
                                        computeUnitPrice |-> "auto"]],
                             NoLocals, r.cache, r.decodes, 0)

cancel_limit_order(a, csm, c, pk) ==
  IF MissingStr(a.order) THEN Done(Fail(<< "order address cannot be empty" >>), c, 0, 0)
  ELSE LET r == ResolveActor(csm, "user_address", a.user_address, c, pk)
       IN IF ~r.ok THEN ActorFail(r)
          ELSE Await([method |-> "POST", url |-> << trigger_base_url, "/cancelOrder" >>,
                      json |-> [order |-> a.order, maker |-> r.val,
                                computeUnitPrice |-> "auto"]],
                     NoLocals, r.cache, r.decodes, 0)

\* Mutant: the orders field is always sent, empty when no list was given.
cancel_limit_orders_m(a, csm, c, pk) ==
  LET r == ResolveActor(csm, "user_address", a.user_address, c, pk)
  IN IF ~r.ok THEN ActorFail(r)
     ELSE IF \E i \in 1..Len(a.orders.list) : MissingStr(a.orders.list[i]) THEN
       Done(Fail(<< "order addresses cannot be empty" >>), r.cache, r.decodes, 0)
     ELSE Await([method |-> "POST", url |-> << trigger_base_url, "/cancelOrders" >>,
                 json |-> [maker |-> r.val, computeUnitPrice |-> "auto",
                           orders |-> a.orders.list]],
                NoLocals, r.cache, r.decodes, 0)

\* Mutant: an empty list is refused as a validation error.
cancel_limit_orders_refuse_m(a, csm, c, pk) ==
  LET r == ResolveActor(csm, "user_address", a.user_address, c, pk)
  IN IF ~r.ok THEN ActorFail(r)
     ELSE IF a.orders.given THEN
       IF Len(a.orders.list) = 0
            \/ \E i \in 1..Len(a.orders.list) : MissingStr(a.orders.list[i]) THEN
         Done(Fail(<< "order addresses cannot be empty" >>), r.cache, r.decodes, 0)
       ELSE Await([method |-> "POST", url |-> << trigger_base_url, "/cancelOrders" >>,
                   json |-> [maker |-> r.val, computeUnitPrice |-> "auto",
                             orders |-> a.orders.list]],
                  NoLocals, r.cache, r.decodes, 0)
     ELSE Await([method |-> "POST", url |-> << trigger_base_url, "/cancelOrders" >>,
                 json |-> [maker |-> r.val, computeUnitPrice |-> "auto"]],
                NoLocals, r.cache, r.decodes, 0)

cancel_limit_orders(a, csm, c, pk) ==
  LET r == ResolveActor(csm, "user_address", a.user_address, c, pk)
  IN IF ~r.ok THEN ActorFail(r)
     ELSE IF a.orders.given /\ Len(a.orders.list) > 0 THEN
       IF \E i \in 1..Len(a.orders.list) : MissingStr(a.orders.list[i]) THEN
         Done(Fail(<< "order addresses cannot be empty" >>), r.cache, r.decodes, 0)
       ELSE Await([method |-> "POST", url |-> << trigger_base_url, "/cancelOrders" >>,
                   json |-> [maker |-> r.val, computeUnitPrice |-> "auto",
                             orders |-> a.orders.list]],
                  NoLocals, r.cache, r.decodes, 0)
     ELSE Await([method |-> "POST", url |-> << trigger_base_url, "/cancelOrders" >>,
                 json |-> [maker |-> r.val, computeUnitPrice |-> "auto"]],
                NoLocals, r.cache, r.decodes, 0)

\* The query of getTriggerOrders: the optional filters are added when
\* truthy (mints) or given (page).
OrdersQuery(a, wallet) ==
  LET keys == {"orderStatus", "wallet"}
                \cup (IF a.input_mint \notin {NoneVal, ""} THEN {"inputMint"} ELSE {})
                \cup (IF a.output_mint \notin {NoneVal, ""} THEN {"outputMint"} ELSE {})
                \cup (IF a.page.given THEN {"page"} ELSE {})
  IN [k \in keys |->
        CASE k = "orderStatus" -> a.order_status
          [] k = "wallet" -> wallet
          [] k = "inputMint" -> a.input_mint
          [] k = "outputMint" -> a.output_mint
          [] k = "page" -> ToString(a.page.n)]

\* Mutant: the status is looked at only once the address is resolved.
get_limit_orders_m(a, csm, c, pk) ==
  LET r == ResolveActor(csm, "wallet_address", a.wallet_address, c, pk)
  IN IF ~r.ok THEN ActorFail(r)
     ELSE IF a.order_status \notin {"active", "history"} THEN
       Done(Fail(<< "order_status must be 'active' or 'history'" >>),
            r.cache, r.decodes, 0)
     ELSE IF IsBlankStr(r.val) THEN
       Done(Fail(<< "wallet_address cannot be empty" >>), r.cache, r.decodes, 0)
     ELSE Await([method |-> "GET",
                 url |-> << trigger_base_url, "/getTriggerOrders" >>,
                 params |-> OrdersQuery(a, r.val)],
                [wallet_address |-> r.val], r.cache, r.decodes, 0)

get_limit_orders(a, csm, c, pk) ==
  IF a.order_status \notin {"active", "history"} THEN
    Done(Fail(<< "order_status must be 'active' or 'history'" >>), c, 0, 0)
  ELSE LET r == ResolveActor(csm, "wallet_address", a.wallet_address, c, pk)
       IN IF ~r.ok THEN ActorFail(r)
          ELSE IF IsBlankStr(r.val) THEN
            Done(Fail(<< "wallet_address cannot be empty" >>), r.cache, r.decodes, 0)
          ELSE Await([method |-> "GET",
                      url |-> << trigger_base_url, "/getTriggerOrders" >>,
                      params |-> OrdersQuery(a, r.val)],
                     [wallet_address |-> r.val], r.cache, r.decodes, 0)

\* ------------------------------------------------------ after the response
\* Mutant: the more-pages flag of the payload is not surfaced.
limit_orders_result_m(loc, body) ==
  IF body.shape = "list" THEN Raise(<< "'list' object has no attribute 'get'" >>)
  ELSE Ok([success |-> TRUE, wallet_address |-> loc.wallet_address,
           data |-> IF "orders" \in DOMAIN body.v THEN body.v.orders ELSE body,
           hasMoreData |-> FALSE])

\* get_limit_orders from its response on: response.get("hasMoreData", False)
\* comes first and raises AttributeError on a list; then the orders of an
\* object that has them, else the payload itself.
limit_orders_result(loc, body) ==
  IF body.shape = "list" THEN Raise(<< "'list' object has no attribute 'get'" >>)
  ELSE Ok([success |-> TRUE, wallet_address |-> loc.wallet_address,
           data |-> IF "orders" \in DOMAIN body.v THEN body.v.orders ELSE body,
           hasMoreData |-> IF "hasMoreData" \in DOMAIN body.v
                           THEN body.v.hasMoreData ELSE FALSE])

\* The rest of an operation's body once make_http_request has given h: the
\* envelope it returns, or the error it raises.  A JSON body is
\* [shape |-> "dict", v |-> record] or [shape |-> "list", items |-> sequence].
AfterResponse(o, loc, h) ==
  IF ~h.ok THEN Raise(h.err)
  ELSE IF o = "get_balances" THEN
    Ok([success |-> TRUE, wallet_address |-> loc.wallet_address, data |-> h.val])
  ELSE IF o = "search_token" THEN
    Ok([success |-> TRUE, query |-> loc.query, data |-> h.val])
  ELSE IF o = "build_raw_swap_tx" THEN
    IF h.val.shape = "dict" THEN
      Ok(Success([k \in DOMAIN h.val.v \cup {"user_address"} |->
                    IF k = "user_address" THEN loc.user_address ELSE h.val.v[k]]))
    ELSE Raise(<< "TypeError" >>)
  ELSE IF o = "get_limit_orders" THEN limit_orders_result(loc, h.val)
  ELSE Ok(Success(h.val))

\* Mutant: the except clause lets the error escape.
except_Exception_m(o, err) == Raised(err)

\* The except clause that closes every facade operation: the error becomes
\* a failure envelope, prefixed with the operation's text except in the
\* two execute operations, which report str(e) alone.
except_Exception(o, err) ==
  Returned(Fail(IF o \in {"execute_swap_transaction", "execute_limit_order"}
                THEN err ELSE << OpPrefix(o) >> \o err))

\* ------------------------------------------------------------------ inputs
Strs == {NoneVal, "", " ", "tokA"}
Mints == {NoneVal, " ", "tokA"}
Addrs == {NoneVal, " ", "walletX"}
Ids == {NoneVal, " ", "req-1"}
Amounts ==
  { NoneAmt, << >>, << " " >>, << "0" >>, << "-", "5" >>, << "7" >>,
    << " ", "7", " " >>, << "1", ".", "5" >>, << "a" >>, << "1", "_", "0" >>,
    << "+", "3" >> }
SomeAmounts == { NoneAmt, << " " >>, << "0" >>, << "7" >>, << "a" >>, << "-", "5" >> }
\* (slippage_bps, expired_at) of create_limit_order
OrderOptions == { << NoInt, NoInt >>, << SomeInt(0), SomeInt(50) >>, << SomeInt(50), NoInt >> }
\* (input_mint, output_mint, page) of get_limit_orders
OrderFilters ==
  { << NoneVal, NoneVal, NoInt >>, << "", "tokB", SomeInt(2) >>, << "tokA", NoneVal, NoInt >> }
OrderLists ==
  { NoList, SomeList(<< >>), SomeList(<< "A", "B" >>), SomeList(<< "B", "A" >>),
    SomeList(<< "A", " " >>), SomeList(<< NoneVal >>) }
Statuses == {"active", "history", "open", NoneVal}

SampleMessages ==
  { [numReq |-> n, keys |-> ks, payload |-> p] :
      n \in 0..2,
      ks \in { << PubkeyBytes(1) >>, << PubkeyBytes(2) >>, << PubkeyBytes(3) >>,
               << PubkeyBytes(1), PubkeyBytes(2) >> },
      p \in { << 9 >> } }
SampleSignatures ==
  { << >>, << Zeros(SigLen) >>, << SignBytes(1, << 5 >>) >> }
\* Every sample message with one empty signature slot, and one signable
\* message under every sample signature list.
SampleTxs ==
  { [signatures |-> << Zeros(SigLen) >>, message |-> m] : m \in SampleMessages }
    \cup { [signatures |-> sg,
             message |-> [numReq |-> 1, keys |-> << PubkeyBytes(1) >>, payload |-> << 9 >>]] :
           sg \in SampleSignatures }

\* Base64 text a caller may pass as a transaction: encodings of the sample
\* transactions, of truncated transactions, and malformed text.
MalformedTxInputs ==
  { NoneCodes, << >>, << SpaceCh, SpaceCh, SpaceCh, SpaceCh >>, << 0, 0, 0 >>,
    << 0, 0, BadCh, 0 >>, << SpaceCh, 0, 0, 0 >>, << 0, 0, PadCh, 0 >>,
    B64Encode(<< 1 >>), B64Encode(<< 0, 1 >>), B64Encode(<< 0, 1, 1 >>) }
\* A transaction that already carries the valid signature of key 1.
PreSignedTx ==
  NewSignedTx([numReq |-> 1, keys |-> << PubkeyBytes(1) >>, payload |-> << 9 >>], 1).val
TxInputs ==
  { B64Encode(SerializeTx(tx)) : tx \in SampleTxs \cup {PreSignedTx} }
    \cup MalformedTxInputs

Payloads ==
  { [shape |-> "dict", v |-> [transaction |-> "unsignedTx", requestId |-> "req-9"]],
    [shape |-> "dict", v |-> [signature |-> "sig1", status |-> "Success"]],
    [shape |-> "dict", v |-> [orders |-> << "o1", "o2" >>, hasMoreData |-> TRUE]],
    [shape |-> "dict", v |-> [orders |-> << "o1" >>]],
    [shape |-> "list", items |-> << "o1" >>] }
HttpOutcomes ==
  { [kind |-> "ok", body |-> b] : b \in Payloads }
    \cup { [kind |-> "badjson"], [kind |-> "timeout"],
           [kind |-> "status", status |-> 500, text |-> "Internal Server Error"],
           [kind |-> "fault", text |-> "Connection reset"] }

\* REQUEST_TIMEOUT as configured: unset (the default) or another value.
RequestTimeouts == { DefaultRequestTimeout, 10 }
\* The timeout argument of a direct make_http_request call.
CallTimeouts == { [given |-> FALSE, n |-> 0], [given |-> TRUE, n |-> 5] }

\* -------------------------------------------------------------------- Init
Init ==
  /\ client_side_mode \in BOOLEAN
  /\ private_key \in PrivateKeys
  /\ request_timeout \in RequestTimeouts
  /\ _keypair = 0
  /\ _solana_client = FALSE
  /\ pc = "idle"
  /\ op = "none"
  /\ args = NoArgs
  /\ request = NoRequest
  /\ locals = NoLocals
  /\ response = NoResponse
  /\ result = NoResult
  /\ signer_calls = 0
  /\ http_calls = 0
  /\ decode_calls = 0

\* ----------------------------------------------------------------- actions
\* A facade call from the idle client runs to its envelope or to its request.
Start(o, a, st) ==
  /\ pc = "idle"
  /\ op' = o
  /\ args' = a
  /\ _keypair' = st.cache
  /\ decode_calls' = st.decodes
  /\ signer_calls' = st.signs
  /\ IF st.kind = "await"
       THEN /\ pc' = "waiting"
            /\ result' = NoResult
            /\ request' = st.req
            /\ locals' = st.loc
            /\ http_calls' = 1
       ELSE /\ pc' = "done"
            /\ result' = IF st.kind = "throw" THEN except_Exception(o, st.err)
                          ELSE Returned(st.env)
            /\ request' = NoRequest
            /\ locals' = NoLocals
            /\ http_calls' = 0
  /\ response' = NoResponse
  /\ UNCHANGED << client_side_mode, private_key, request_timeout, _solana_client >>

\* The address argument of the operations that have one only in
\* client-signing mode.
UserAddrs == IF client_side_mode THEN {NoneVal, "walletX"} ELSE {NoneVal}

GetSwapQuote ==
  \E im \in Mints, om \in {" ", "tokB"}, am \in Amounts, ua \in UserAddrs :
    LET a == [input_mint |-> im, output_mint |-> om, amount |-> am, user_address |-> ua]
    IN Start("get_swap_quote", a, get_swap_quote(a, client_side_mode, _keypair, private_key))

ExecuteSwapTransaction ==
  \E t \in TxInputs, id \in Ids :
    LET a == [transaction |-> t, request_id |-> id]
    IN Start("execute_swap_transaction", a,
             execute_transaction("execute_swap_transaction", base_url, a,
                                 client_side_mode, _keypair, private_key))

GetBalances ==
  \E w \in Strs :
    LET a == [wallet_address |-> w]
    IN Start("get_balances", a, get_balances(a, client_side_mode, _keypair, private_key))

GetShield ==
  \E m \in Strs :
    LET a == [mints |-> m] IN Start("get_shield", a, get_shield(a, _keypair))

SearchToken ==
  \E q \in Strs :
    LET a == [query |-> q] IN Start("search_token", a, search_token(a, _keypair))

BuildRawSwapTx ==
  /\ client_side_mode
  /\ \E im \in Mints, om \in {" ", "tokB"}, am \in SomeAmounts, ua \in Addrs :
       LET a == [input_mint |-> im, output_mint |-> om, amount |-> am, user_address |-> ua]
       IN Start("build_raw_swap_tx", a, build_raw_swap_tx(a, _keypair))

SubmitSignedTransaction ==
  /\ client_side_mode
  /\ \E t \in TxInputs, id \in Ids :
       LET a == [signed_transaction |-> t, request_id |-> id]
       IN Start("submit_signed_transaction", a, submit_signed_transaction(a, _keypair))

CreateLimitOrder ==
  \E im \in {" ", "tokA"}, om \in {NoneVal, "tokB"},
     ma \in { << " " >>, << "0" >>, << "7" >>, << "a" >> },
     ta \in { NoneAmt, << "7" >>, << "-", "5" >> },
     opt \in OrderOptions, ua \in UserAddrs :
    LET a == [input_mint |-> im, output_mint |-> om, making_amount |-> ma,
              taking_amount |-> ta, slippage_bps |-> opt[1], expired_at |-> opt[2],
              user_address |-> ua]
    IN Start("create_limit_order", a,
             create_limit_order(a, client_side_mode, _keypair, private_key))

ExecuteLimitOrder ==
  \E t \in TxInputs, id \in Ids :
    LET a == [transaction |-> t, request_id |-> id]
    IN Start("execute_limit_order", a,
             execute_transaction("execute_limit_order", trigger_base_url, a,
                                 client_side_mode, _keypair, private_key))

CancelLimitOrder ==
  \E o \in Strs, ua \in UserAddrs :
    LET a == [order |-> o, user_address |-> ua]
    IN Start("cancel_limit_order", a,
             cancel_limit_order(a, client_side_mode, _keypair, private_key))

CancelLimitOrders ==
  \E os \in OrderLists, ua \in UserAddrs :
    LET a == [orders |-> os, user_address |-> ua]
    IN Start("cancel_limit_orders", a,
             cancel_limit_orders(a, client_side_mode, _keypair, private_key))

GetLimitOrders ==
  \E st \in Statuses, w \in Addrs, f \in OrderFilters :
    LET a == [order_status |-> st, wallet_address |-> w, input_mint |-> f[1],
              output_mint |-> f[2], page |-> f[3]]
    IN Start("get_limit_orders", a,
             get_limit_orders(a, client_side_mode, _keypair, private_key))

\* Mutant: a failed request is attempted once more before it is reported.
Respond_m ==
  /\ pc = "waiting"
  /\ \E o \in HttpOutcomes :
       LET h == make_http_request(o, IF op = "make_http_request" THEN args.timeout
                                      ELSE NoInt, request_timeout)
           r == AfterResponse(op, locals, h)
       IN /\ response' = o
          /\ IF ~h.ok /\ http_calls < 2
               THEN /\ pc' = "waiting"
                    /\ http_calls' = http_calls + 1
                    /\ result' = NoResult
               ELSE /\ pc' = "done"
                    /\ http_calls' = http_calls
                    /\ result' = IF op = "make_http_request"
                                   THEN IF h.ok THEN Returned(h.val) ELSE Raised(h.err)
                                   ELSE IF r.ok THEN Returned(r.val)
                                   ELSE except_Exception(op, r.err)
  /\ UNCHANGED << client_side_mode, private_key, request_timeout, _keypair,
                  _solana_client, op, args, request, locals, signer_calls,
                  decode_calls >>

\* The transport answers the pending request and the operation builds its
\* envelope.
Respond ==
  /\ pc = "waiting"
  /\ \E o \in HttpOutcomes :
       LET h == make_http_request(o, IF op = "make_http_request" THEN args.timeout
                                      ELSE NoInt, request_timeout)
           r == AfterResponse(op, locals, h)
       IN /\ response' = o
          /\ result' = IF op = "make_http_request"
                         THEN IF h.ok THEN Returned(h.val) ELSE Raised(h.err)
                         ELSE IF r.ok THEN Returned(r.val)
                         ELSE except_Exception(op, r.err)
  /\ pc' = "done"
  /\ UNCHANGED << client_side_mode, private_key, request_timeout, _keypair,
                  _solana_client, op, args,
                  request, locals, signer_calls, http_calls, decode_calls >>

\* make_http_request called directly, with or without a timeout argument.
MakeHttpRequest ==
  /\ pc = "idle"
  /\ \E t \in CallTimeouts :
       args' = [method |-> "GET", url |-> << base_url, "/search" >>, timeout |-> t]
  /\ op' = "make_http_request"
  /\ pc' = "waiting"
  /\ request' = [method |-> "GET", url |-> << base_url, "/search" >>]
  /\ http_calls' = 1
  /\ UNCHANGED << client_side_mode, private_key, request_timeout, _keypair,
                  _solana_client, locals, response, result, signer_calls,
                  decode_calls >>

\* A direct, synchronous call (no request): its outcome and the cache after.
Direct(o, a, res, c, dec, sg) ==
  /\ pc = "idle"
  /\ pc' = "done"
  /\ op' = o
  /\ args' = a
  /\ result' = res
  /\ _keypair' = c
  /\ decode_calls' = dec
  /\ signer_calls' = sg
  /\ request' = NoRequest
  /\ locals' = NoLocals
  /\ http_calls' = 0
  /\ response' = NoResponse
  /\ UNCHANGED << client_side_mode, private_key, request_timeout >>

GetKeypair ==
  /\ LET kp == get_keypair(client_side_mode, _keypair, private_key)
     IN Direct("get_keypair", NoArgs,
               IF kp.ok THEN Returned([keypair |-> kp.val]) ELSE Raised(kp.err),
               kp.cache, kp.decodes, 0)
  /\ UNCHANGED _solana_client

SignTransaction ==
  /\ \E t \in TxInputs :
       LET sg == sign_transaction(t, client_side_mode, _keypair, private_key)
       IN Direct("sign_transaction", [transaction_base64 |-> t],
                 IF sg.ok THEN Returned(sg.val) ELSE Raised(sg.err),
                 sg.cache, sg.decodes, 1)
  /\ UNCHANGED _solana_client

\* get_wallet_info; its client-signing form is spec-modelled.
GetWalletInfo ==
  /\ LET kp == get_keypair(client_side_mode, _keypair, private_key)
     IN Direct("get_wallet_info", NoArgs,
               IF client_side_mode THEN
                 Returned([client_side_mode |-> "true", network |-> "devnet",
                           rpc_url |-> "rpc", message |-> "client-side"])
               ELSE IF kp.ok THEN
                 Returned([wallet_address |-> PubkeyStr(kp.val), network |-> "devnet",
                           rpc_url |-> "rpc"])
               ELSE Returned([error |-> kp.err]),
               kp.cache, kp.decodes, 0)
  /\ UNCHANGED _solana_client

GetSolanaClient ==
  /\ Direct("get_solana_client", NoArgs, Returned("AsyncClient"), _keypair, 0, 0)
  /\ _solana_client' = TRUE

\* Mutant: only the network handle is dropped, the keypair is kept.
ResetCachedClients_m ==
  /\ Direct("reset_cached_clients", NoArgs, Returned(NoneVal), _keypair, 0, 0)
  /\ _solana_client' = FALSE

ResetCachedClients ==
  /\ Direct("reset_cached_clients", NoArgs, Returned(NoneVal), 0, 0, 0)
  /\ _solana_client' = FALSE

\* The owner assigns another secret to the idle client (api.private_key = x).
SetPrivateKey ==
  /\ pc = "idle"
  /\ private_key' \in PrivateKeys \ { private_key }
  /\ UNCHANGED << client_side_mode, request_timeout, _keypair, _solana_client, pc,
                  op, args, request, locals, response, result, signer_calls,
                  http_calls, decode_calls >>

\* The caller takes the result; the client is idle again.
Return ==
  /\ pc = "done"
  /\ pc' = "idle"
  /\ op' = "none"
  /\ args' = NoArgs
  /\ request' = NoRequest
  /\ locals' = NoLocals
  /\ response' = NoResponse
  /\ result' = NoResult
  /\ signer_calls' = 0
  /\ http_calls' = 0
  /\ decode_calls' = 0
  /\ UNCHANGED << client_side_mode, private_key, request_timeout, _keypair,
                  _solana_client >>

Next ==
  \/ GetSwapQuote
  \/ ExecuteSwapTransaction
  \/ GetBalances
  \/ GetShield
  \/ SearchToken
  \/ BuildRawSwapTx
  \/ SubmitSignedTransaction
  \/ CreateLimitOrder
  \/ ExecuteLimitOrder
  \/ CancelLimitOrder
  \/ CancelLimitOrders
  \/ GetLimitOrders
  \/ GetKeypair
  \/ SignTransaction
  \/ GetWalletInfo
  \/ GetSolanaClient
  \/ ResetCachedClients
  \/ MakeHttpRequest
  \/ SetPrivateKey
  \/ Respond
  \/ Return

Spec == Init /\ [][Next]_vars


\* ==================================================================== claims
FacadeOps ==
  { "get_swap_quote", "execute_swap_transaction", "get_balances", "get_shield",
    "search_token", "create_limit_order", "execute_limit_order",
    "cancel_limit_order", "cancel_limit_orders", "get_limit_orders" }
ExecuteOps == { "execute_swap_transaction", "execute_limit_order" }

\* The tokens of part occur, contiguous and in order, in the message msg.
Contains(msg, part) ==
  \E i \in 1..(Len(msg) - Len(part) + 1) : SubSeq(msg, i, i + Len(part) - 1) = part

IsFailure(r) ==
  /\ r.kind = "return"
  /\ DOMAIN r.value = {"success", "error"}
  /\ r.value.success = FALSE
IsSuccess(r) ==
  /\ r.kind = "return"
  /\ "success" \in DOMAIN r.value
  /\ r.value.success = TRUE

\* The base path an execute operation posts to.
ExecuteBase(o) == IF o = "execute_swap_transaction" THEN base_url ELSE trigger_base_url

\* C1: every facade operation of JupiterAPI, for every input, every state of
\* the secret and every outcome of the request, ends by returning an
\* envelope that carries a boolean success flag; no error escapes.
C1_EnvelopeAlways ==
  (pc = "done" /\ op \in FacadeOps) =>
    /\ result.kind = "return"
    /\ "success" \in DOMAIN result.value
    /\ result.value.success \in BOOLEAN

\* C1 witness: a request that timed out, and a secret that does not decode,
\* each reported in an envelope.
C1_Witness ==
  /\ pc = "done"
  /\ op = "get_limit_orders"
  /\ response = [kind |-> "timeout"]
  /\ IsFailure(result)

\* C2: in server-signing mode a request issued by an execute operation is
\* one POST to the execute endpoint of the operation's base path, made after
\* one signer call, whose body holds the caller's request id unchanged and a
\* transaction that carries the input's message under the keypair's
\* signature over it in its one signature slot, never an empty slot.
C2_ExecuteSendsSigned ==
  (~client_side_mode /\ op \in ExecuteOps /\ http_calls > 0) =>
    /\ http_calls = 1
    /\ signer_calls = 1
    /\ request.method = "POST"
    /\ request.url = << ExecuteBase(op), "/execute" >>
    /\ DOMAIN request = {"method", "url", "json"}
    /\ DOMAIN request.json = {"signedTransaction", "requestId"}
    /\ request.json.requestId = args.request_id
    /\ LET sent == ParseTx(B64Decode(request.json.signedTransaction).val)
           given == ParseTx(B64Decode(args.transaction).val)
       IN /\ sent.ok /\ given.ok
          /\ sent.val.message = given.val.message
          /\ sent.val.signatures =
               << SignBytes(_keypair, SerializeMessage(given.val.message)) >>
          /\ sent.val.signatures[1] # Zeros(SigLen)

\* C2 witness: a limit order executed successfully.
C2_Witness ==
  /\ ~client_side_mode
  /\ pc = "done"
  /\ op = "execute_limit_order"
  /\ IsSuccess(result)

\* C3: when the signer fails inside an execute operation the operation
\* returns a failure envelope and no request is made.
C3_SignFailureNoRequest ==
  (/\ ~client_side_mode
   /\ op \in ExecuteOps
   /\ signer_calls = 1
   /\ ~sign_transaction(args.transaction, client_side_mode, _keypair, private_key).ok) =>
    /\ pc = "done"
    /\ IsFailure(result)
    /\ http_calls = 0
    /\ request = NoRequest
    /\ response = NoResponse

\* C3 witness: the signer failed for want of a secret, and for a malformed
\* transaction.
C3_Witness ==
  /\ ~client_side_mode
  /\ pc = "done"
  /\ op = "execute_swap_transaction"
  /\ signer_calls = 1
  /\ private_key = NoKey
  /\ IsFailure(result)
  /\ http_calls = 0

\* C4: in client-signing mode an execute operation given a non-blank
\* transaction and request id returns a failure envelope whose error says
\* that this operation is disabled in client-side mode; neither the signer
\* nor the request executor runs.
C4_ExecuteDisabled ==
  (/\ client_side_mode
   /\ op \in ExecuteOps
   /\ ~MissingCodes(args.transaction)
   /\ ~MissingStr(args.request_id)) =>
    /\ pc = "done"
    /\ IsFailure(result)
    /\ Contains(result.value.error, DisabledMsg(op))
    /\ signer_calls = 0
    /\ http_calls = 0
    /\ decode_calls = 0

\* C4 witness: execute_limit_order refused in client-signing mode.
C4_Witness ==
  /\ client_side_mode
  /\ pc = "done"
  /\ op = "execute_limit_order"
  /\ ~MissingCodes(args.transaction)
  /\ ~MissingStr(args.request_id)
  /\ private_key.kind = "b58"

\* C5: in client-signing mode the keypair is never resolved: the cache stays
\* empty, the secret is never decoded, and a direct get_keypair raises the
\* error that keypair access is disabled in client-side mode.
C5_NoKeypairInClientMode ==
  client_side_mode =>
    /\ _keypair = 0
    /\ decode_calls = 0
    /\ (pc = "done" /\ op = "get_keypair") => result = Raised(KeypairDisabledMsg)

\* C5 witness: get_keypair called on a client-signing client that has a
\* decodable secret configured.
C5_Witness ==
  /\ client_side_mode
  /\ private_key.kind = "b58"
  /\ pc = "done"
  /\ op = "get_keypair"


AddressOps ==
  { "get_balances", "get_limit_orders", "get_swap_quote", "create_limit_order",
    "cancel_limit_order", "cancel_limit_orders" }
\* The name and the value of an operation's address argument.
AddrParam(o) ==
  IF o \in {"get_balances", "get_limit_orders"} THEN "wallet_address" ELSE "user_address"
AddrArg == IF op \in {"get_balances", "get_limit_orders"}
           THEN args.wallet_address ELSE args.user_address

ValidAmount(s) == ~MissingAmt(s) /\ ParseInt(s).ok /\ ParseInt(s).val > 0

\* The call's other arguments are all valid.
OtherArgsValid ==
  CASE op = "get_swap_quote" ->
         ~MissingStr(args.input_mint) /\ ~MissingStr(args.output_mint)
           /\ ValidAmount(args.amount)
    [] op = "build_raw_swap_tx" ->
         ~MissingStr(args.input_mint) /\ ~MissingStr(args.output_mint)
           /\ ValidAmount(args.amount)
    [] op = "create_limit_order" ->
         ~MissingStr(args.input_mint) /\ ~MissingStr(args.output_mint)
           /\ ValidAmount(args.making_amount) /\ ValidAmount(args.taking_amount)
    [] op = "cancel_limit_order" -> ~MissingStr(args.order)
    [] op = "cancel_limit_orders" ->
         \A i \in 1..Len(args.orders.list) : ~MissingStr(args.orders.list[i])
    [] op = "get_limit_orders" -> args.order_status \in {"active", "history"}
    [] op = "get_balances" -> TRUE

\* C6: in client-signing mode an address-taking operation called without
\* its address returns a failure envelope, makes no request and resolves no
\* keypair; when the call's other arguments are valid the error names the
\* missing parameter and says it is required in client-side mode.
C6_AddressRequired ==
  (client_side_mode /\ op \in AddressOps /\ AddrArg = NoneVal) =>
    /\ pc = "done"
    /\ IsFailure(result)
    /\ http_calls = 0
    /\ request = NoRequest
    /\ _keypair = 0
    /\ decode_calls = 0
    /\ OtherArgsValid =>
         Contains(result.value.error,
                  << AddrParam(op), " parameter is required in client-side mode" >>)

\* C6 witness: create_limit_order, otherwise valid, without user_address on
\* a client-signing client whose environment does hold a secret.
C6_Witness ==
  /\ client_side_mode
  /\ private_key.kind = "b64"
  /\ pc = "done"
  /\ op = "create_limit_order"
  /\ args.user_address = NoneVal
  /\ OtherArgsValid

\* The address a get_balances / get_limit_orders request is made for.
RequestAddress ==
  IF op = "get_balances" THEN request.url[3] ELSE request.params.wallet

\* C7: in server-signing mode get_balances and get_limit_orders without a
\* wallet address ask for the resolved keypair's address; with an explicit
\* non-blank address they ask for exactly that address, echo it in the
\* envelope, and do not touch the keypair, so they reach their request
\* whatever the secret.
C7_ActorAddress ==
  (~client_side_mode /\ op \in {"get_balances", "get_limit_orders"}) =>
    /\ (http_calls = 1 /\ args.wallet_address = NoneVal) =>
         /\ _keypair # 0
         /\ RequestAddress = PubkeyStr(_keypair)
    /\ (~MissingStr(args.wallet_address) /\ OtherArgsValid) =>
         /\ http_calls = 1
         /\ decode_calls = 0
         /\ RequestAddress = args.wallet_address
         /\ (pc = "done" /\ IsSuccess(result)) =>
              result.value.wallet_address = args.wallet_address

\* C7 witness: an explicit address served with no secret configured, and
\* the envelope returned.
C7_Witness ==
  /\ ~client_side_mode
  /\ private_key = NoKey
  /\ _keypair = 0
  /\ pc = "done"
  /\ op = "get_limit_orders"
  /\ args.wallet_address = "walletX"
  /\ IsSuccess(result)

\* C7 second witness: no address given, the keypair's address used.
C7_WitnessDerived ==
  /\ ~client_side_mode
  /\ pc = "waiting"
  /\ op = "get_balances"
  /\ args.wallet_address = NoneVal
  /\ request.url = << base_url, "/balances/", "PubkeyOfSeed2" >>

\* C8: the client-signing swap lifecycle runs without the signer and
\* without a keypair.  build_raw_swap_tx with a non-blank user_address and a
\* dict payload returns success with every field of the payload plus the
\* caller's user_address; with a blank user_address (other arguments valid)
\* it fails with 'user_address cannot be empty' and makes no request.
\* submit_signed_transaction posts the caller's transaction and request id,
\* unchanged, to the swap execute endpoint.
C8_ClientLifecycle ==
  /\ (op \in {"build_raw_swap_tx", "submit_signed_transaction"}) =>
       signer_calls = 0 /\ decode_calls = 0 /\ _keypair = 0
  /\ (op = "build_raw_swap_tx" /\ MissingStr(args.user_address) /\ OtherArgsValid) =>
       /\ pc = "done"
       /\ result = Returned(Fail(<< "user_address cannot be empty" >>))
       /\ http_calls = 0
  /\ (op = "build_raw_swap_tx" /\ ~MissingStr(args.user_address) /\ OtherArgsValid) =>
       /\ http_calls = 1
       /\ request.params.taker = args.user_address
       /\ (pc = "done" /\ response.kind = "ok" /\ response.body.shape = "dict") =>
            /\ IsSuccess(result)
            /\ result.value.data.user_address = args.user_address
            /\ \A k \in DOMAIN response.body.v :
                 result.value.data[k] = response.body.v[k]
  /\ (op = "submit_signed_transaction" /\ ~MissingCodes(args.signed_transaction)
        /\ ~MissingStr(args.request_id)) =>
       /\ http_calls = 1
       /\ request = [method |-> "POST", url |-> << base_url, "/execute" >>,
                     json |-> [signedTransaction |-> args.signed_transaction,
                               requestId |-> args.request_id]]
       /\ (pc = "done" /\ response.kind = "ok") => result = Returned(Success(response.body))

\* C8 witness: a raw transaction built for the caller's address.
C8_Witness ==
  /\ pc = "done"
  /\ op = "build_raw_swap_tx"
  /\ IsSuccess(result)
  /\ response.body.v = [transaction |-> "unsignedTx", requestId |-> "req-9"]
  /\ result.value.data.user_address = "walletX"
  /\ result.value.data.transaction = "unsignedTx"
  /\ result.value.data.requestId = "req-9"

\* C8 second witness: a caller-signed transaction relayed.
C8_WitnessSubmit ==
  /\ pc = "done"
  /\ op = "submit_signed_transaction"
  /\ IsSuccess(result)
  /\ private_key.kind = "b58"


\* The number of populated (non-placeholder) signature slots.
Populated(tx) ==
  Cardinality({ i \in 1..Len(tx.signatures) : tx.signatures[i] # Zeros(SigLen) })

\* The first of the signer's five input checks that text t fails, 0 if none.
FirstFailing(t) ==
  IF t = NoneCodes \/ Len(t) = 0 THEN 1
  ELSE IF Len(t) % 4 # 0 THEN 2
  ELSE IF ~B64Decode(t).ok THEN 3
  ELSE IF Len(B64Decode(t).val) = 0 THEN 4
  ELSE IF ~ParseTx(B64Decode(t).val).ok THEN 5
  ELSE 0

SignDone == pc = "done" /\ op = "sign_transaction"
SignInput == ParseTx(B64Decode(args.transaction_base64).val).val
SignOutput == ParseTx(B64Decode(result.value).val).val
\* The returned text decodes and parses back.
OutputParses ==
  /\ result.kind = "return"
  /\ B64Decode(result.value).ok
  /\ ParseTx(B64Decode(result.value).val).ok
StartsWith(msg, pre) ==
  Len(msg) >= Len(pre) /\ SubSeq(msg, 1, Len(pre)) = pre

\* C9 as stated: every input that decodes and parses is signed, the message
\* is kept and one more signature slot is populated than in the input.
C9_Original ==
  (SignDone /\ FirstFailing(args.transaction_base64) = 0) =>
    /\ OutputParses
    /\ SignOutput.message = SignInput.message
    /\ Populated(SignOutput) = Populated(SignInput) + 1

\* The keypair this client holds is the message's one required signer.
SoleSigner ==
  /\ _keypair # 0
  /\ SignInput.message.numReq = 1
  /\ Len(SignInput.message.keys) >= 1
  /\ SignInput.message.keys[1] = PubkeyBytes(_keypair)

\* C9 (amended): for an input that decodes and parses, sign_transaction
\* returns exactly when the keypair resolves and is the one signer the
\* message requires, and raises otherwise.  The returned text decodes to a
\* transaction with the input's message and exactly one signature slot,
\* holding the keypair's signature over that message: the input's own
\* signature slots are discarded, so this is one more populated slot than
\* the input only when the input had none populated.
C9_SignRoundTrip ==
  (SignDone /\ FirstFailing(args.transaction_base64) = 0) =>
    IF SoleSigner THEN
      /\ OutputParses
      /\ SignOutput.message = SignInput.message
      /\ SignOutput.signatures
           = << SignBytes(_keypair, SerializeMessage(SignInput.message)) >>
      /\ Populated(SignOutput) = 1
      /\ (Populated(SignInput) = 0) =>
           Populated(SignOutput) = Populated(SignInput) + 1
    ELSE
      /\ result.kind = "raise"
      /\ StartsWith(result.msg, << SignPrefix >>)

\* C9 witness: an unsigned transaction for this keypair is signed.
C9_Witness ==
  /\ SignDone
  /\ FirstFailing(args.transaction_base64) = 0
  /\ SoleSigner
  /\ SignInput.signatures = << Zeros(SigLen) >>
  /\ OutputParses
  /\ Populated(SignOutput) = 1

\* C9 second witness: an input that already carries a signature comes back
\* with the same number of populated slots.
C9_WitnessPreSigned ==
  /\ SignDone
  /\ FirstFailing(args.transaction_base64) = 0
  /\ result.kind = "return"
  /\ Populated(SignInput) = 1

\* C9 third witness: a parsable input whose signer is another key is
\* refused although the secret resolves.
C9_WitnessRefused ==
  /\ SignDone
  /\ FirstFailing(args.transaction_base64) = 0
  /\ _keypair # 0
  /\ result.kind = "raise"

\* The cause reported for the failure of input check k.
InputCauseReported(k) ==
  CASE k = 1 -> result = Raised(<< SignPrefix >> \o EmptyTxMsg)
    [] k = 2 -> result = Raised(<< SignPrefix >> \o BadLenMsg)
    [] k = 3 -> result.kind = "raise"
                  /\ StartsWith(result.msg, << SignPrefix, BadB64Prefix >>)
    [] k = 4 -> result = Raised(<< SignPrefix >> \o EmptyBytesMsg)
    [] k = 5 -> result.kind = "raise"
                  /\ StartsWith(result.msg, << SignPrefix, BadTxPrefix >>)

\* The failures of keypair resolution, as the signer reports them.
KeypairCauses ==
  { << SignPrefix, "PRIVATE_KEY environment variable is required" >>,
    << SignPrefix, "Invalid PRIVATE_KEY format: ", "key bytes error" >>,
    << SignPrefix >> \o KeypairDisabledMsg }

\* C10 as stated: an input failing one of the five checks reports the cause
\* of the first failing check, whatever the secret, and the keypair is not
\* resolved.
C10_Original ==
  (SignDone /\ FirstFailing(args.transaction_base64) # 0) =>
    /\ InputCauseReported(FirstFailing(args.transaction_base64))
    /\ decode_calls = 0

\* C10 (amended): sign_transaction applies checks (1) non-empty and (2)
\* length a multiple of 4, then resolves the keypair, then applies checks
\* (3) strict base64 decode, (4) decoded length > 0 and (5) parses as a
\* versioned transaction.  An input failing check 1 or 2 reports that
\* failure whatever the secret and leaves the keypair unresolved; an input
\* passing checks 1-2 with no resolvable keypair reports the keypair
\* failure, whatever else is wrong with it; with a resolved keypair the
\* cause is that of the first failing check among 3-5.
C10_CheckOrder ==
  SignDone =>
    LET k == FirstFailing(args.transaction_base64)
    IN /\ (k \in {1, 2}) => InputCauseReported(k) /\ decode_calls = 0
       /\ (k \notin {1, 2} /\ _keypair = 0) =>
            result.kind = "raise" /\ result.msg \in KeypairCauses
       /\ (k \in {3, 4, 5} /\ _keypair # 0) => InputCauseReported(k)

\* C10 witness: text with a character outside the base64 alphabet, no
\* secret configured: the keypair failure is what is reported.
C10_Witness ==
  /\ SignDone
  /\ ~client_side_mode
  /\ private_key = NoKey
  /\ FirstFailing(args.transaction_base64) = 3
  /\ result = Raised(<< SignPrefix, "PRIVATE_KEY environment variable is required" >>)

\* C10 second witness: the same kind of input with a secret reports the
\* decode failure, and the keypair has been resolved on the way.
C10_WitnessDecode ==
  /\ SignDone
  /\ FirstFailing(args.transaction_base64) = 3
  /\ decode_calls > 0
  /\ InputCauseReported(3)

\* C10 third witness: a parse failure reported with the keypair resolved.
C10_WitnessParse ==
  /\ SignDone
  /\ FirstFailing(args.transaction_base64) = 5
  /\ _keypair # 0
  /\ InputCauseReported(5)

\* The number of times the signer's prefix occurs in a message.
PrefixCount(msg) == Cardinality({ i \in 1..Len(msg) : msg[i] = SignPrefix })

\* An execute operation has ended on a signer failure.
ExecuteSignFailed ==
  /\ pc = "done"
  /\ op \in ExecuteOps
  /\ signer_calls = 1
  /\ http_calls = 0

\* C11 as stated: every signing failure a caller sees, from sign_transaction
\* directly or in the envelope of an execute operation, is
\* 'Failed to sign transaction: <cause>' with the prefix exactly once.
C11_SinglePrefix ==
  /\ (SignDone /\ result.kind = "raise") =>
       result.msg[1] = SignPrefix /\ PrefixCount(result.msg) = 1
  /\ ExecuteSignFailed =>
       /\ IsFailure(result)
       /\ result.value.error[1] = SignPrefix
       /\ PrefixCount(result.value.error) = 1

\* The amount text is not an integer, or is an integer <= 0.
BadAmount(s) == ~ParseInt(s).ok \/ ParseInt(s).val <= 0

\* C12: get_swap_quote with an amount, and create_limit_order with a
\* making_amount or taking_amount, that is not an integer or is <= 0 returns
\* a failure envelope at once, and the request executor is not invoked.
C12_BadAmountNoRequest ==
  ( \/ op = "get_swap_quote" /\ BadAmount(args.amount)
    \/ op = "create_limit_order"
         /\ (BadAmount(args.making_amount) \/ BadAmount(args.taking_amount)) ) =>
    /\ pc = "done"
    /\ IsFailure(result)
    /\ http_calls = 0
    /\ request = NoRequest
    /\ response = NoResponse

\* C12 witness: a negative amount, everything else valid, is refused as
\* not positive.
C12_Witness ==
  /\ pc = "done"
  /\ op = "get_swap_quote"
  /\ ~MissingStr(args.input_mint) /\ ~MissingStr(args.output_mint)
  /\ args.amount = << "-", "5" >>
  /\ result = Returned(Fail(<< "amount must be a positive number" >>))
  /\ http_calls = 0

\* C12 second witness: a limit order whose taking amount is negative.
C12_WitnessOrder ==
  /\ pc = "done"
  /\ op = "create_limit_order"
  /\ args.making_amount = << "7" >>
  /\ args.taking_amount = << "-", "5" >>
  /\ result = Returned(Fail(<< "amounts must be positive numbers" >>))

\* A required string argument of the current call is absent, empty or
\* blank.
BlankRequired ==
  CASE op \in {"get_swap_quote"} ->
         MissingStr(args.input_mint) \/ MissingStr(args.output_mint)
           \/ MissingAmt(args.amount)
    [] op = "create_limit_order" ->
         MissingStr(args.input_mint) \/ MissingStr(args.output_mint)
           \/ MissingAmt(args.making_amount) \/ MissingAmt(args.taking_amount)
    [] op = "get_shield" -> MissingStr(args.mints)
    [] op = "search_token" -> MissingStr(args.query)
    [] op = "cancel_limit_order" -> MissingStr(args.order)
    [] op = "cancel_limit_orders" ->
         args.orders.given
           /\ \E i \in 1..Len(args.orders.list) : MissingStr(args.orders.list[i])
    [] op \in ExecuteOps ->
         MissingCodes(args.transaction) \/ MissingStr(args.request_id)
    [] op \in {"get_balances", "get_limit_orders"} ->
         args.wallet_address # NoneVal /\ IsBlankStr(args.wallet_address)
    [] OTHER -> FALSE

\* C13: a facade operation called with a required string argument absent,
\* empty or blank returns a failure envelope, and the request executor is
\* not invoked.
C13_BlankNoRequest ==
  (op \in FacadeOps /\ BlankRequired) =>
    /\ pc = "done"
    /\ IsFailure(result)
    /\ http_calls = 0
    /\ request = NoRequest
    /\ response = NoResponse

\* C13 witness: a batch cancel with one blank identifier among valid ones,
\* on a client whose keypair resolves.
C13_Witness ==
  /\ pc = "done"
  /\ op = "cancel_limit_orders"
  /\ args.orders = SomeList(<< "A", " " >>)
  /\ _keypair # 0
  /\ result = Returned(Fail(<< "order addresses cannot be empty" >>))
  /\ http_calls = 0

\* C13 second witness: an explicitly passed blank wallet address.
C13_WitnessWallet ==
  /\ pc = "done"
  /\ op = "get_balances"
  /\ args.wallet_address = " "
  /\ result = Returned(Fail(<< "wallet_address cannot be empty" >>))

\* C13 third witness: a blank transaction given to an execute operation.
C13_WitnessTransaction ==
  /\ pc = "done"
  /\ op = "execute_limit_order"
  /\ ~client_side_mode
  /\ args.transaction = << SpaceCh, SpaceCh, SpaceCh, SpaceCh >>
  /\ result = Returned(Fail(<< "Transaction cannot be empty" >>))
  /\ signer_calls = 0

\* C14: every envelope a facade operation returns has, when success is
\* true, a data field and no error field, and when success is false, an
\* error text and no data field.
C14_EnvelopeShape ==
  (pc = "done" /\ op \in FacadeOps /\ result.kind = "return") =>
    LET env == result.value
    IN /\ {"success"} \subseteq DOMAIN env
       /\ env.success = TRUE =>
            "data" \in DOMAIN env /\ "error" \notin DOMAIN env
       /\ env.success = FALSE =>
            /\ "error" \in DOMAIN env
            /\ "data" \notin DOMAIN env
            /\ Len(env.error) > 0
            /\ \A i \in 1..Len(env.error) : env.error[i] \in STRING

\* C14 witness: the richest success envelope, that of get_limit_orders,
\* with its extra fields next to data.
C14_Witness ==
  /\ pc = "done"
  /\ op = "get_limit_orders"
  /\ result.kind = "return"
  /\ result.value.success = TRUE
  /\ DOMAIN result.value = {"success", "wallet_address", "data", "hasMoreData"}

\* C14 second witness: a failure envelope produced by an except clause.
C14_WitnessFailure ==
  /\ pc = "done"
  /\ op = "get_balances"
  /\ response = [kind |-> "fault", text |-> "Connection reset"]
  /\ DOMAIN result.value = {"success", "error"}

\* The request of the current call has failed in the request executor: a
\* status other than 200, a timeout, or a transport fault.
RequestFailed ==
  /\ pc = "done"
  /\ http_calls = 1
  /\ response.kind \in {"status", "timeout", "fault"}

\* The message make_http_request raised for that failure.
ExecutorError == make_http_request(response, NoInt, request_timeout).err

\* C15 as stated: in every facade operation, the two execute operations
\* included, a request executor failure is returned as a failure envelope
\* whose error is an operation-specific text followed by the executor's
\* message.
C15_FailurePrefixed ==
  (op \in FacadeOps /\ RequestFailed) =>
    /\ IsFailure(result)
    /\ Len(result.value.error) = Len(ExecutorError) + 1
    /\ SubSeq(result.value.error, 2, Len(result.value.error)) = ExecutorError
    /\ result.value.error[1] \notin {"Request failed: ", "Request timed out after "}
    /\ (op \notin ExecuteOps) => result.value.error[1] = OpPrefix(op)

\* A direct make_http_request call has completed.
HttpDone == pc = "done" /\ op = "make_http_request"

\* C16: make_http_request maps each transport outcome to one result.  A 200
\* with a JSON body returns the parsed body; another status raises an error
\* that contains the status code and the raw body text; a timeout raises an
\* error naming the timeout in force, the call's timeout argument when given
\* and the configured request_timeout otherwise; another transport fault
\* raises an error wrapping the fault's description.  A facade operation,
\* which passes no timeout, reports the configured one.
C16_ExecutorMapping ==
  /\ HttpDone =>
       CASE response.kind = "ok" -> result = Returned(response.body)
         [] response.kind = "status" ->
              /\ result.kind = "raise"
              /\ Contains(result.msg, << "HTTP ", ToString(response.status), ": ",
                                         response.text >>)
         [] response.kind = "timeout" ->
              result = Raised(<< "Request timed out after ",
                                 ToString(IF args.timeout.given THEN args.timeout.n
                                          ELSE request_timeout),
                                 " seconds" >>)
         [] response.kind = "fault" ->
              result = Raised(<< "Request failed: ", response.text >>)
         [] OTHER -> result.kind = "raise"
  /\ (op \in FacadeOps /\ pc = "done" /\ response.kind = "timeout") =>
       /\ IsFailure(result)
       /\ Contains(result.value.error,
                   << "Request timed out after ", ToString(request_timeout),
                      " seconds" >>)

\* C16 witness: a timeout on a call that set its own timeout, on a client
\* configured with another.
C16_Witness ==
  /\ HttpDone
  /\ response.kind = "timeout"
  /\ args.timeout.given
  /\ args.timeout.n # request_timeout
  /\ request_timeout # DefaultRequestTimeout
  /\ result = Raised(<< "Request timed out after ", "5", " seconds" >>)

\* C16 second witness: no timeout argument, the configured value named.
C16_WitnessConfigured ==
  /\ HttpDone
  /\ response.kind = "timeout"
  /\ ~args.timeout.given
  /\ result = Raised(<< "Request timed out after ", "10", " seconds" >>)

\* C16 third witness: a status other than 200.
C16_WitnessStatus ==
  /\ HttpDone
  /\ result = Raised(<< "Request failed: ", "HTTP ", "500", ": ",
                        "Internal Server Error" >>)

\* One step of a client that does not retry: a request is issued only as an
\* invocation starts, and only one; the response, good or bad, ends the
\* invocation with the same request on record; a failed request of a facade
\* operation is in the envelope returned then; a finished invocation issues
\* nothing more.
NoRetryStep ==
  /\ http_calls' <= 1
  /\ (http_calls' > http_calls) => (pc = "idle" /\ pc' = "waiting")
  /\ (pc = "waiting") =>
       /\ pc' = "done"
       /\ response' \in HttpOutcomes
       /\ request' = request
       /\ http_calls' = http_calls
       /\ (op \in FacadeOps /\ response'.kind \in {"status", "timeout", "fault"}) =>
            IsFailure(result')
  /\ (pc = "done") => (pc' = "idle" /\ http_calls' = 0 /\ request' = NoRequest)
  /\ (pc' = "done") => (http_calls' = 0 \/ response' \in HttpOutcomes)

\* C17: no retries.  One invocation of a facade operation invokes the
\* request executor at most once; a failed request is reported in that
\* invocation's envelope and not attempted again; when the operation has
\* returned, no request of its is in flight.
C17_NoRetry == [][NoRetryStep]_vars

\* C17 witness: an execute operation whose only request failed, reported.
C17_Witness ==
  /\ pc = "done"
  /\ op = "execute_swap_transaction"
  /\ http_calls = 1
  /\ response.kind = "status"
  /\ IsFailure(result)

\* One step of a client whose keypair is memoized.  The secret is decoded
\* only as a call starts; with a keypair cached no call decodes it, the cache changes only by being emptied in
\* reset_cached_clients, and a step that needs the keypair (get_keypair,
\* get_wallet_info, a signature, a derived address) uses the cached one,
\* whatever the secret has since become.  An empty cache is filled only by
\* a resolution that decoded the current secret.
MemoStep ==
  /\ (pc # "idle") => decode_calls' \in {decode_calls, 0}
  /\ (_keypair # 0) =>
       /\ (pc = "idle") => decode_calls' = 0
       /\ _keypair' \in {_keypair, 0}
       /\ (_keypair' = 0) => op' = "reset_cached_clients"
       /\ (op' = "get_keypair" /\ pc' = "done") =>
            result' = Returned([keypair |-> _keypair])
       /\ (op' = "get_wallet_info" /\ pc' = "done") =>
            result'.value.wallet_address = PubkeyStr(_keypair)
       /\ (pc = "idle" /\ op' = "get_balances" /\ args'.wallet_address = NoneVal) =>
            request'.url = << base_url, "/balances/", PubkeyStr(_keypair) >>
       /\ (pc = "idle" /\ op' = "sign_transaction" /\ result'.kind = "return") =>
            ParseTx(B64Decode(result'.value).val).val.message.keys[1]
              = PubkeyBytes(_keypair)
  /\ (_keypair = 0 /\ _keypair' # 0) =>
       /\ decode_calls' > 0
       /\ private_key.kind \in {"b58", "b64"}
       /\ _keypair' = private_key.seed
       /\ ~client_side_mode
  /\ (_keypair = 0 /\ pc = "idle" /\ op' = "get_keypair" /\ result'.kind = "raise") =>
       _keypair' = 0

\* C18: keypair memoization.  After the first successful get_keypair every
\* later access, direct or through a facade operation, yields the same
\* keypair without decoding the secret again, until reset_cached_clients;
\* the cache is populated only by a successful resolution.
C18_KeypairMemoized == [][MemoStep]_vars

\* C18 witness: get_keypair answered from the cache after the secret has
\* been replaced by another one.
C18_Witness ==
  /\ pc = "done"
  /\ op = "get_keypair"
  /\ _keypair # 0
  /\ private_key.kind \in {"b58", "b64"}
  /\ private_key.seed # _keypair
  /\ decode_calls = 0
  /\ result = Returned([keypair |-> _keypair])

\* One step around reset_cached_clients.  The reset returns None and leaves
\* both memoized objects empty whatever they held, so a second reset changes
\* nothing more; with the keypair cache empty, get_keypair decodes the
\* secret as it is now, and raises, leaving the cache empty, when that
\* secret is absent or does not decode.
ResetStep ==
  /\ (pc = "idle" /\ op' = "reset_cached_clients") =>
       /\ pc' = "done"
       /\ result' = Returned(NoneVal)
       /\ _keypair' = 0
       /\ _solana_client' = FALSE
       /\ private_key' = private_key
  /\ (pc = "idle" /\ op' = "get_keypair" /\ _keypair = 0 /\ ~client_side_mode) =>
       IF private_key.kind \in {"b58", "b64"}
         THEN /\ result' = Returned([keypair |-> private_key.seed])
              /\ _keypair' = private_key.seed
              /\ decode_calls' > 0
         ELSE /\ result'.kind = "raise"
              /\ _keypair' = 0
              /\ (private_key.kind \in {"none", "empty"}) =>
                   result' = Raised(<< "PRIVATE_KEY environment variable is required" >>)

\* C19: reset_cached_clients never fails (it can always be called on the
\* idle client and returns), is idempotent, and after it the next keypair
\* access resolves again from the secret then configured, failing if that
\* secret is absent.
C19_ResetIdempotent ==
  /\ [](pc = "idle" => ENABLED ResetCachedClients)
  /\ [][ResetStep]_vars

\* C19 witness: a reset on a client that holds a valid secret and a network
\* handle was made before; both caches are empty afterwards.
C19_Witness ==
  /\ pc = "done"
  /\ op = "reset_cached_clients"
  /\ result = Returned(NoneVal)
  /\ private_key.kind = "b64"
  /\ _keypair = 0
  /\ _solana_client = FALSE

\* cancel_limit_orders has sent its request.
CancelSent == op = "cancel_limit_orders" /\ http_calls = 1
\* Every identifier of the list given is non-blank.
AllNonBlank == \A i \in 1..Len(args.orders.list) : ~MissingStr(args.orders.list[i])
\* The address cancel_limit_orders acts for.
CancelMaker == IF client_side_mode THEN args.user_address ELSE PubkeyStr(_keypair)

\* C20 as stated: the request body of cancel_limit_orders has no orders
\* field when no list is given, and when a list of non-blank identifiers is
\* given its orders field is that list; the maker is the actor's address.
C20_Original ==
  CancelSent =>
    /\ request.json.maker = CancelMaker
    /\ (~args.orders.given) => "orders" \notin DOMAIN request.json
    /\ (args.orders.given /\ AllNonBlank) =>
         /\ "orders" \in DOMAIN request.json
         /\ request.json.orders = args.orders.list

\* C20 (amended): the body has no orders field when no list or an empty
\* list is given; when a non-empty list of non-blank identifiers is given
\* the orders field is that list, same elements in the same order.  In
\* both cases the request goes out once the actor's address is known, as a
\* POST to cancelOrders with that address as maker.
C20_CancelOrdersBody ==
  /\ CancelSent =>
       /\ request.method = "POST"
       /\ request.url = << trigger_base_url, "/cancelOrders" >>
       /\ request.json.maker = CancelMaker
       /\ (~args.orders.given \/ Len(args.orders.list) = 0) =>
            DOMAIN request.json = {"maker", "computeUnitPrice"}
       /\ (args.orders.given /\ Len(args.orders.list) > 0) =>
            /\ AllNonBlank
            /\ DOMAIN request.json = {"maker", "computeUnitPrice", "orders"}
            /\ request.json.orders = args.orders.list
  /\ (op = "cancel_limit_orders" /\ ~client_side_mode /\ _keypair # 0 /\ AllNonBlank) =>
       http_calls = 1

\* C20 witness: two identifiers given in the order B, A and sent so.
C20_Witness ==
  /\ CancelSent
  /\ ~client_side_mode
  /\ args.orders = SomeList(<< "B", "A" >>)
  /\ request.json.orders = << "B", "A" >>
  /\ request.json.maker = PubkeyStr(_keypair)

\* C20 second witness: an empty list sent as a body without orders.
C20_WitnessEmptyList ==
  /\ CancelSent
  /\ args.orders = SomeList(<< >>)
  /\ "orders" \notin DOMAIN request.json

StatusError == << "order_status must be 'active' or 'history'" >>

\* C21: get_limit_orders accepts order_status exactly when it is 'active'
\* or 'history'.  Any other value returns the status failure at once: no
\* address is resolved, the secret is not decoded and no request is made.
\* An accepted status is never refused as a status, and reaches the request,
\* carrying the status, once the wallet address is known.
C21_StatusFilter ==
  (op = "get_limit_orders") =>
    /\ (args.order_status \notin {"active", "history"}) =>
         /\ pc = "done"
         /\ result = Returned(Fail(StatusError))
         /\ http_calls = 0
         /\ request = NoRequest
         /\ decode_calls = 0
    /\ (args.order_status \in {"active", "history"}) =>
         /\ (pc = "done") => result # Returned(Fail(StatusError))
         /\ (~MissingStr(args.wallet_address)) =>
              /\ http_calls = 1
              /\ request.params.orderStatus = args.order_status

\* C21 witness: an unknown status refused on a server-signing client that
\* has a decodable secret and was given no address, the keypair left
\* unresolved.
C21_Witness ==
  /\ pc = "done"
  /\ op = "get_limit_orders"
  /\ args.order_status = "open"
  /\ args.wallet_address = NoneVal
  /\ ~client_side_mode
  /\ private_key.kind = "b58"
  /\ _keypair = 0
  /\ result = Returned(Fail(StatusError))

\* C21 second witness: 'history' accepted and sent.
C21_WitnessAccepted ==
  /\ op = "get_limit_orders"
  /\ pc = "waiting"
  /\ request.params.orderStatus = "history"

\* get_limit_orders has received a 200 with the JSON body it ends on.
OrdersAnswered ==
  /\ pc = "done"
  /\ op = "get_limit_orders"
  /\ response.kind = "ok"

\* C22: when the list-orders payload is an object with an 'orders' list,
\* get_limit_orders returns success with data equal to that list, same
\* elements in the same order, and hasMoreData equal to the payload's
\* hasMoreData, or false when the payload has none.
C22_OrdersPayload ==
  (OrdersAnswered /\ response.body.shape = "dict"
     /\ "orders" \in DOMAIN response.body.v) =>
    /\ IsSuccess(result)
    /\ result.value.data = response.body.v.orders
    /\ result.value.hasMoreData
         = (IF "hasMoreData" \in DOMAIN response.body.v
              THEN response.body.v.hasMoreData ELSE FALSE)
    /\ result.value.wallet_address = request.params.wallet

\* C22 witness: two orders and the more-pages flag set.
C22_Witness ==
  /\ OrdersAnswered
  /\ response.body.shape = "dict"
  /\ response.body.v = [orders |-> << "o1", "o2" >>, hasMoreData |-> TRUE]
  /\ result.value.data = << "o1", "o2" >>
  /\ result.value.hasMoreData = TRUE

\* C22 second witness: a payload without the flag.
C22_WitnessNoFlag ==
  /\ OrdersAnswered
  /\ response.body.shape = "dict"
  /\ response.body.v = [orders |-> << "o1" >>]
  /\ result.value.hasMoreData = FALSE

\* The field names under which a createOrder body could name the account
\* that receives the fee.
FeeAccountFields == {"feeAccount", "referralAccount"}

\* C23 as stated: every request built by get_swap_quote and by
\* create_limit_order carries the referral fee of 255 basis points and the
\* fixed referral account it is routed to, whatever the caller passes.
C23_ReferralFee ==
  /\ (op = "get_swap_quote" /\ http_calls = 1) =>
       /\ request.params.referralFee = REFERRAL_FEE
       /\ request.params.referralAccount = DEV_REFERRER_WALLET
  /\ (op = "create_limit_order" /\ http_calls = 1) =>
       /\ request.json.params.feeBps = << REFERRAL_FEE >>
       /\ \E f \in FeeAccountFields :
            f \in DOMAIN request.json \/ f \in DOMAIN request.json.params

\* ------------------------------------------------------------------- C24
Tokens(s) == { s[i] : i \in 1..Len(s) }

\* The texts of the secrets a process can be configured with.
Secrets == { SecretText(pk) : pk \in { k \in PrivateKeys : k.kind \in {"b58", "b64", "bad"} } }

\* The tokens of the error text the current call raised or returned.
ErrorTokens ==
  IF result.kind = "raise" THEN Tokens(result.msg)
  ELSE IF result.kind = "return"
          /\ op \in FacadeOps \cup {"build_raw_swap_tx", "submit_signed_transaction",
                                    "get_wallet_info"}
          /\ "error" \in DOMAIN result.value
       THEN Tokens(result.value.error)
  ELSE {}

\* The address texts the current call returned: the envelope's address, or
\* every field of the wallet-info result.
ResultTexts ==
  IF result.kind # "return" THEN {}
  ELSE IF op = "get_wallet_info" /\ "error" \notin DOMAIN result.value
       THEN { result.value[k] : k \in DOMAIN result.value }
  ELSE IF op \in {"get_balances", "get_limit_orders"}
          /\ "wallet_address" \in DOMAIN result.value
       THEN { result.value.wallet_address }
  ELSE {}

\* The texts the client itself puts into the current request: the url and
\* the address of the acting wallet.
RequestTexts ==
  IF request = NoRequest THEN {}
  ELSE Tokens(request.url)
         \cup (IF op \in {"get_swap_quote", "build_raw_swap_tx"}
               THEN { request.params.taker }
               ELSE IF op = "get_limit_orders" THEN { request.params.wallet }
               ELSE IF op \in {"create_limit_order", "cancel_limit_order",
                               "cancel_limit_orders"}
               THEN { request.json.maker }
                      \cup (IF "payer" \in DOMAIN request.json
                            THEN { request.json.payer } ELSE {})
               ELSE {})

\* The keypair's address stands where the caller gave none.
DerivedAddress ==
  /\ (op = "get_wallet_info" /\ result.kind = "return"
        /\ "wallet_address" \in DOMAIN result.value) =>
       /\ _keypair # 0
       /\ result.value.wallet_address = PubkeyStr(_keypair)
  /\ (~client_side_mode /\ request # NoRequest /\ op \in AddressOps
        /\ AddrArg = NoneVal) =>
       /\ _keypair # 0
       /\ PubkeyStr(_keypair) \in RequestTexts

\* C24: the text of the configured secret is in no error a call raises or
\* returns, in no envelope address, in no wallet-info field and in no url or
\* address of an outbound request; where the caller gave no address the
\* keypair shows as its public address string, and a transaction the signer
\* returns holds the caller's message and the keypair's signature of it and
\* nothing else.
C24_SecretConfined ==
  /\ (ErrorTokens \cup ResultTexts \cup RequestTexts) \cap Secrets = {}
  /\ DerivedAddress
  /\ (SignDone /\ result.kind = "return") =>
       /\ _keypair # 0
       /\ OutputParses
       /\ Ok(SignOutput) = NewSignedTx(SignInput.message, _keypair)

\* C24 witness: a secret that decodes under neither encoding is reported by
\* get_wallet_info as a format error.
C24_Witness ==
  /\ pc = "done"
  /\ op = "get_wallet_info"
  /\ private_key.kind = "bad"
  /\ result = Returned([error |-> << "Invalid PRIVATE_KEY format: ", "key bytes error" >>])

\* C24 second witness: an order created with the keypair's address.
C24_WitnessRequest ==
  /\ pc = "waiting"
  /\ op = "create_limit_order"
  /\ args.user_address = NoneVal
  /\ private_key.kind = "b58"
  /\ request.json.maker = "PubkeyOfSeed1"

\* ------------------------------------------------------------------- C25
\* The current call has an input its operation's validation refuses.
InvalidInput ==
  \/ BlankRequired
  \/ op = "get_swap_quote" /\ BadAmount(args.amount)
  \/ op = "create_limit_order"
       /\ (BadAmount(args.making_amount) \/ BadAmount(args.taking_amount))
  \/ op = "get_limit_orders" /\ args.order_status \notin {"active", "history"}

\* The envelope's error reports the secret, not an input.
ReportsSecret ==
  \E cause \in { << "PRIVATE_KEY environment variable is required" >>,
                  << "Invalid PRIVATE_KEY format: " >> } :
    Contains(result.value.error, cause)

\* C25: every facade operation called with a malformed or missing input
\* returns a validation failure whatever the secret: the secret is not
\* decoded and the error does not report it.
C25_ValidationFirst ==
  (op \in FacadeOps /\ InvalidInput) =>
    /\ pc = "done"
    /\ IsFailure(result)
    /\ decode_calls = 0
    /\ ~ReportsSecret

\* The same statement for every facade operation but cancel_limit_orders.
C25_OthersValidateFirst ==
  (op \in FacadeOps \ {"cancel_limit_orders"} /\ InvalidInput) =>
    /\ pc = "done"
    /\ IsFailure(result)
    /\ decode_calls = 0
    /\ ~ReportsSecret

\* A batch cancel with a blank identifier and no secret reports the secret.
C25_CancelReportsSecret ==
  /\ pc = "done"
  /\ op = "cancel_limit_orders"
  /\ ~client_side_mode
  /\ args.orders = SomeList(<< "A", " " >>)
  /\ private_key = NoKey
  /\ result = Returned(Fail(<< "Failed to cancel orders: ",
                               "PRIVATE_KEY environment variable is required" >>))

\* ------------------------------------------------------------------- C26
\* What the current batch cancel would do had it been given no list, on
\* the client as the call left it.
CancelWithoutList ==
  cancel_limit_orders([args EXCEPT !.orders = NoList],
                      client_side_mode, _keypair, private_key)

\* C26: cancel_limit_orders given an empty list does what the call without
\* a list does: where that call sends a request, the same request is sent,
\* a body of maker and computeUnitPrice without an 'orders' field; where it
\* fails on the actor, the same failure is returned.  The empty list is
\* never refused as an input.
C26_EmptyListIsNoList ==
  (op = "cancel_limit_orders" /\ args.orders = SomeList(<< >>)) =>
    /\ (CancelWithoutList.kind = "await") =>
         /\ http_calls = 1
         /\ request = CancelWithoutList.req
         /\ DOMAIN request.json = {"maker", "computeUnitPrice"}
    /\ (CancelWithoutList.kind = "env") =>
         /\ http_calls = 0
         /\ result = Returned(CancelWithoutList.env)
    /\ (pc = "done" /\ IsFailure(result)) =>
         result.value.error # << "order addresses cannot be empty" >>

\* C26 witness: an empty list on a server-signing client, sent as the
\* cancel-all body of the keypair's address and answered.
C26_Witness ==
  /\ pc = "done"
  /\ op = "cancel_limit_orders"
  /\ ~client_side_mode
  /\ args.orders = SomeList(<< >>)
  /\ _keypair # 0
  /\ request # NoRequest
  /\ request.json = [maker |-> PubkeyStr(_keypair), computeUnitPrice |-> "auto"]
  /\ IsSuccess(result)

\* ------------------------------------------------------------------- C27
\* get_limit_orders has been answered with a payload that is a bare list.
ListAnswered ==
  /\ pc = "done"
  /\ op = "get_limit_orders"
  /\ response.kind = "ok"
  /\ response.body.shape = "list"

\* C27: a list-orders payload that is a bare list gives a success envelope
\* whose data is that list and whose hasMoreData is false.
C27_BareList ==
  ListAnswered =>
    /\ IsSuccess(result)
    /\ result.value.data = response.body
    /\ result.value.hasMoreData = FALSE

\* What the code returns for the bare list: the failure of response.get.
C27_ListFails ==
  ListAnswered =>
    result = Returned(Fail(<< "Failed to get limit orders: ",
                              "'list' object has no attribute 'get'" >>))

\* A bare list answered to a valid query.
C27_ListReached ==
  /\ ListAnswered
  /\ args.order_status = "active"
  /\ args.wallet_address = "walletX"

\* ------------------------------------------------------------------- C28
\* Concurrent facade operations on one client.  Every per-call variable is
\* a function of the slot; the configuration and the keypair cache are
\* shared.  An operation reads the cache when its body starts and writes it
\* when its resolution ends, so two first resolutions may overlap; after
\* that it is suspended only at its request.
Slots == {1, 2}

SignableText ==
  B64Encode(SerializeTx([signatures |-> << Zeros(SigLen) >>,
                         message |-> [numReq |-> 1, keys |-> << PubkeyBytes(1) >>,
                                      payload |-> << 9 >>]]))

\* The calls the concurrent callers make.
ConcCalls ==
  { [op |-> "get_balances", args |-> [wallet_address |-> NoneVal]],
    [op |-> "get_balances", args |-> [wallet_address |-> "walletX"]],
    [op |-> "get_limit_orders",
     args |-> [order_status |-> "active", wallet_address |-> NoneVal,
               input_mint |-> NoneVal, output_mint |-> NoneVal, page |-> NoInt]],
    [op |-> "cancel_limit_order", args |-> [order |-> "A", user_address |-> NoneVal]],
    [op |-> "execute_swap_transaction",
     args |-> [transaction |-> SignableText, request_id |-> "req-1"]] }

\* The body of operation o with arguments a, run up to its request on a
\* client whose cache reads c.
ConcBody(o, a, c) ==
  CASE o = "get_balances" -> get_balances(a, client_side_mode, c, private_key)
    [] o = "get_limit_orders" -> get_limit_orders(a, client_side_mode, c, private_key)
    [] o = "cancel_limit_order" -> cancel_limit_order(a, client_side_mode, c, private_key)
    [] o = "execute_swap_transaction" ->
         execute_transaction(o, base_url, a, client_side_mode, c, private_key)

\* The envelope operation o builds from the remote outcome out.
ConcEnvelope(o, loc, out) ==
  LET r == AfterResponse(o, loc, make_http_request(out, NoInt, request_timeout))
  IN IF r.ok THEN Returned(r.val) ELSE except_Exception(o, r.err)

ConcInit ==
  /\ client_side_mode = FALSE
  /\ private_key \in PrivateKeys
  /\ request_timeout = DefaultRequestTimeout
  /\ _keypair = 0
  /\ _solana_client = FALSE
  /\ pc = [s \in Slots |-> "idle"]
  /\ op = [s \in Slots |-> "none"]
  /\ args = [s \in Slots |-> NoArgs]
  /\ request = [s \in Slots |-> NoRequest]
  /\ locals = [s \in Slots |-> [seen |-> 0, loc |-> NoLocals]]
  /\ response = [s \in Slots |-> NoResponse]
  /\ result = [s \in Slots |-> NoResult]
  /\ signer_calls = [s \in Slots |-> 0]
  /\ http_calls = [s \in Slots |-> 0]
  /\ decode_calls = [s \in Slots |-> 0]

\* A caller starts an operation in slot s; the body reads the cache.
ConcCall(s) ==
  /\ pc[s] = "idle"
  /\ \E call \in ConcCalls :
       /\ op' = [op EXCEPT ![s] = call.op]
       /\ args' = [args EXCEPT ![s] = call.args]
  /\ locals' = [locals EXCEPT ![s] = [seen |-> _keypair, loc |-> NoLocals]]
  /\ pc' = [pc EXCEPT ![s] = "resolving"]
  /\ UNCHANGED << client_side_mode, private_key, request_timeout, _keypair,
                  _solana_client, request, response, result, signer_calls,
                  http_calls, decode_calls >>

\* The body of slot s runs to its envelope or to its request; a keypair it
\* resolved is stored in the cache.
ConcRun(s) ==
  /\ pc[s] = "resolving"
  /\ LET st == ConcBody(op[s], args[s], locals[s].seen)
     IN /\ _keypair' = IF st.cache # 0 THEN st.cache ELSE _keypair
        /\ decode_calls' = [decode_calls EXCEPT ![s] = st.decodes]
        /\ signer_calls' = [signer_calls EXCEPT ![s] = st.signs]
        /\ IF st.kind = "await"
             THEN /\ pc' = [pc EXCEPT ![s] = "waiting"]
                  /\ result' = result
                  /\ request' = [request EXCEPT ![s] = st.req]
                  /\ locals' = [locals EXCEPT ![s].loc = st.loc]
                  /\ http_calls' = [http_calls EXCEPT ![s] = 1]
             ELSE /\ pc' = [pc EXCEPT ![s] = "done"]
                  /\ result' = [result EXCEPT ![s] =
                                  IF st.kind = "throw" THEN except_Exception(op[s], st.err)
                                  ELSE Returned(st.env)]
                  /\ request' = request
                  /\ locals' = locals
                  /\ http_calls' = http_calls
  /\ UNCHANGED << client_side_mode, private_key, request_timeout, _solana_client,
                  op, args, response >>

\* Mutant: a timeout ends every pending request of the client.
ConcRespond_m(s) ==
  /\ pc[s] = "waiting"
  /\ \E out \in HttpOutcomes :
       LET hit(t) == t = s \/ (out.kind = "timeout" /\ pc[t] = "waiting")
       IN /\ response' = [t \in Slots |-> IF hit(t) THEN out ELSE response[t]]
          /\ result' = [t \in Slots |->
                          IF hit(t) THEN ConcEnvelope(op[t], locals[t].loc, out)
                          ELSE result[t]]
          /\ pc' = [t \in Slots |-> IF hit(t) THEN "done" ELSE pc[t]]
  /\ UNCHANGED << client_side_mode, private_key, request_timeout, _keypair,
                  _solana_client, op, args, request, locals, signer_calls,
                  http_calls, decode_calls >>

\* The transport answers the request of slot s and its operation builds
\* its envelope.
ConcRespond(s) ==
  /\ pc[s] = "waiting"
  /\ \E out \in HttpOutcomes :
       /\ response' = [response EXCEPT ![s] = out]
       /\ result' = [result EXCEPT ![s] = ConcEnvelope(op[s], locals[s].loc, out)]
  /\ pc' = [pc EXCEPT ![s] = "done"]
  /\ UNCHANGED << client_side_mode, private_key, request_timeout, _keypair,
                  _solana_client, op, args, request, locals, signer_calls,
                  http_calls, decode_calls >>

\* The caller of slot s takes its result.
ConcReturn(s) ==
  /\ pc[s] = "done"
  /\ pc' = [pc EXCEPT ![s] = "idle"]
  /\ op' = [op EXCEPT ![s] = "none"]
  /\ args' = [args EXCEPT ![s] = NoArgs]
  /\ request' = [request EXCEPT ![s] = NoRequest]
  /\ locals' = [locals EXCEPT ![s] = [seen |-> 0, loc |-> NoLocals]]
  /\ response' = [response EXCEPT ![s] = NoResponse]
  /\ result' = [result EXCEPT ![s] = NoResult]
  /\ signer_calls' = [signer_calls EXCEPT ![s] = 0]
  /\ http_calls' = [http_calls EXCEPT ![s] = 0]
  /\ decode_calls' = [decode_calls EXCEPT ![s] = 0]
  /\ UNCHANGED << client_side_mode, private_key, request_timeout, _keypair,
                  _solana_client >>

ConcNext ==
  \/ \E s \in Slots : ConcCall(s)
  \/ \E s \in Slots : ConcRun(s)
  \/ \E s \in Slots : ConcRespond(s)
  \/ \E s \in Slots : ConcReturn(s)

ConcSpec == ConcInit /\ [][ConcNext]_vars

\* The operation of slot s run alone on a fresh client.
Alone(s) == ConcBody(op[s], args[s], 0)

\* Slot s holds what its operation gives when run alone with the same
\* remote outcome: the same request, and the same envelope.
AsAlone(s) ==
  (pc[s] \in {"waiting", "done"}) =>
    /\ (Alone(s).kind = "await") =>
         /\ request[s] = Alone(s).req
         /\ (pc[s] = "done") =>
              result[s] = ConcEnvelope(op[s], Alone(s).loc, response[s])
    /\ (Alone(s).kind = "env") =>
         pc[s] = "done" /\ request[s] = NoRequest
           /\ result[s] = Returned(Alone(s).env)
    /\ (Alone(s).kind = "throw") =>
         pc[s] = "done" /\ request[s] = NoRequest
           /\ result[s] = except_Exception(op[s], Alone(s).err)

\* The address slot s asks for, in an operation that derives it.
DerivesAddress(s) ==
  /\ pc[s] \in {"waiting", "done"}
  /\ request[s] # NoRequest
  /\ \/ op[s] \in {"get_balances", "get_limit_orders"} /\ args[s].wallet_address = NoneVal
     \/ op[s] = "cancel_limit_order"
SlotAddress(s) ==
  CASE op[s] = "get_balances" -> request[s].url[3]
    [] op[s] = "get_limit_orders" -> request[s].params.wallet
    [] op[s] = "cancel_limit_order" -> request[s].json.maker

\* A step of one slot leaves the other slots as they were.
OthersUntouched ==
  \A s \in Slots : (pc'[s] # pc[s]) =>
    \A t \in Slots \ {s} :
      /\ pc'[t] = pc[t]
      /\ result'[t] = result[t]
      /\ request'[t] = request[t]
      /\ response'[t] = response[t]

\* C28: under every interleaving of concurrent facade operations on one
\* client, each operation sends the request and returns the envelope it
\* would when run alone with the same remote outcome; a step of one
\* operation, a timeout or a failure among them, leaves every other
\* operation's request and result as they were; and all operations that
\* derive an address ask for the address of one and the same keypair, also
\* when their first resolutions overlap.
C28_Interleavings ==
  /\ [](\A s \in Slots : AsAlone(s))
  /\ [](\A s \in Slots : DerivesAddress(s) =>
          _keypair # 0 /\ SlotAddress(s) = PubkeyStr(_keypair))
  /\ [][OthersUntouched]_vars

\* C28 witness: both operations resolved the keypair for themselves (their
\* first resolutions overlapped), ask for the same address, and one has
\* timed out while the other succeeded.
C28_Witness ==
  /\ pc = [s \in Slots |-> "done"]
  /\ op[1] = "get_balances" /\ op[2] = "get_limit_orders"
  /\ args[1].wallet_address = NoneVal
  /\ decode_calls[1] > 0 /\ decode_calls[2] > 0
  /\ request[1] # NoRequest /\ request[2] # NoRequest
  /\ request[1].url[3] = request[2].params.wallet
  /\ response[1].kind = "timeout"
  /\ IsFailure(result[1])
  /\ IsSuccess(result[2])

\* ------------------------------------------------------------------- C29
\* get_keypair has run on a server-signing client whose cache was empty.
ResolvedNow ==
  /\ pc = "done"
  /\ op = "get_keypair"
  /\ ~client_side_mode
  /\ (result.kind = "return" => decode_calls > 0)

\* What get_keypair does up to the failure of both decodings: no secret
\* fails without decoding; base58 is tried first and its keypair returned;
\* base64 is tried only after base58 failed, and its keypair returned; a
\* secret that decodes under neither fails after both attempts.
TriedInOrder ==
  ResolvedNow =>
    /\ (private_key.kind \in {"none", "empty"}) =>
         /\ result = Raised(<< "PRIVATE_KEY environment variable is required" >>)
         /\ decode_calls = 0
         /\ _keypair = 0
    /\ (private_key.kind = "b58") =>
         /\ result = Returned([keypair |-> FromBase58String(private_key).val])
         /\ decode_calls = 1
         /\ _keypair = private_key.seed
    /\ (private_key.kind = "b64") =>
         /\ result = Returned([keypair |-> FromB64Bytes(private_key).val])
         /\ decode_calls = 2
         /\ _keypair = private_key.seed
    /\ (private_key.kind = "bad") =>
         /\ result.kind = "raise"
         /\ decode_calls = 2
         /\ _keypair = 0

\* C29 as stated: in addition, the error for a secret that decodes under
\* neither encoding describes both attempts.
C29_Original ==
  /\ TriedInOrder
  /\ (ResolvedNow /\ private_key.kind = "bad") =>
       /\ Contains(result.msg, FromBase58String(private_key).err)
       /\ Contains(result.msg, FromB64Bytes(private_key).err)

\* C29: get_keypair fails when no secret is configured; otherwise it tries
\* the base58 decoding first and the base64 raw-bytes decoding only if
\* base58 fails, and returns the keypair of the first that succeeds; when
\* neither succeeds it fails with 'Invalid PRIVATE_KEY format: ' followed by
\* the error of the base64 attempt alone.
C29_DecodeOrder ==
  /\ TriedInOrder
  /\ (ResolvedNow /\ private_key.kind = "bad") =>
       /\ result.msg = << "Invalid PRIVATE_KEY format: " >> \o FromB64Bytes(private_key).err
       /\ ~Contains(result.msg, FromBase58String(private_key).err)

\* C29 witness: a base64 secret resolved at the second attempt.
C29_Witness ==
  /\ ResolvedNow
  /\ private_key.kind = "b64"
  /\ decode_calls = 2
  /\ result = Returned([keypair |-> 2])

\* C29 second witness: a secret that decodes under neither encoding.
C29_WitnessUndecodable ==
  /\ ResolvedNow
  /\ private_key.kind = "bad"
  /\ result = Raised(<< "Invalid PRIVATE_KEY format: ", "key bytes error" >>)

\* ------------------------------------------------------------------- C30
\* JupiterUltraAPI (jupiter_ultra_api.py), translated on its own.  It has
\* the swap operations only and one base path.
Ultra_base_url == "https://lite-api.jup.ag/ultra/v1"

Ultra_get_keypair(c, pk) ==
  IF c # 0 THEN [ok |-> TRUE, val |-> c, cache |-> c]
  ELSE IF pk.kind \in {"none", "empty"} THEN
    [ok |-> FALSE, err |-> << "PRIVATE_KEY environment variable is required" >>, cache |-> c]
  ELSE IF FromBase58String(pk).ok THEN
    [ok |-> TRUE, val |-> FromBase58String(pk).val, cache |-> FromBase58String(pk).val]
  ELSE IF FromB64Bytes(pk).ok THEN
    [ok |-> TRUE, val |-> FromB64Bytes(pk).val, cache |-> FromB64Bytes(pk).val]
  ELSE [ok |-> FALSE,
        err |-> << "Invalid PRIVATE_KEY format: " >> \o FromB64Bytes(pk).err,
        cache |-> c]

Ultra_SignError(cause, c) ==
  [ok |-> FALSE, err |-> << "Failed to sign transaction: " >> \o cause, cache |-> c]

Ultra_sign_transaction(t, c, pk) ==
  IF t = NoneCodes \/ Len(t) = 0 THEN
    Ultra_SignError(<< "Transaction base64 string cannot be empty" >>, c)
  ELSE IF Len(t) % 4 # 0 THEN
    Ultra_SignError(<< "Invalid base64-encoded string: number of data characters must be a multiple of 4" >>, c)
  ELSE LET kp == Ultra_get_keypair(c, pk)
       IN IF ~kp.ok THEN Ultra_SignError(kp.err, kp.cache)
          ELSE IF ~B64Decode(t).ok THEN
            Ultra_SignError(<< "Invalid base64-encoded string: " >> \o B64Decode(t).err,
                            kp.cache)
          ELSE IF Len(B64Decode(t).val) = 0 THEN
            Ultra_SignError(<< "Transaction bytes cannot be empty after decoding" >>,
                            kp.cache)
          ELSE LET u == ParseTx(B64Decode(t).val)
               IN IF ~u.ok THEN
                    Ultra_SignError(<< "Invalid transaction format: " >> \o u.err, kp.cache)
                  ELSE LET sg == NewSignedTx(u.val.message, kp.val)
                       IN IF ~sg.ok THEN Ultra_SignError(sg.err, kp.cache)
                          ELSE [ok |-> TRUE, val |-> B64Encode(SerializeTx(sg.val)),
                                cache |-> kp.cache]

Ultra_make_http_request(o, timeout, cfg) ==
  LET t == IF timeout.given THEN timeout.n ELSE cfg
  IN IF o.kind = "ok" THEN Ok(o.body)
     ELSE IF o.kind = "timeout" THEN
       Raise(<< "Request timed out after ", ToString(t), " seconds" >>)
     ELSE Raise(<< "Request failed: " >>
                  \o (CASE o.kind = "status" ->
                             << "HTTP ", ToString(o.status), ": ", o.text >>
                        [] o.kind = "badjson" -> << "JSON decode error" >>
                        [] o.kind = "fault" -> << o.text >>))

\* The outcome of an operation's body up to its request: the envelope it
\* returns at once (env), or the request it makes and what it keeps for the
\* envelope (req, keep); in both cases the cache afterwards.
Ultra_Return(env, c) == [sent |-> FALSE, env |-> env, cache |-> c]
Ultra_Request(req, keep, c) == [sent |-> TRUE, req |-> req, keep |-> keep, cache |-> c]
Ultra_Failure(text) == [success |-> FALSE, error |-> text]

Ultra_get_swap_quote(a, c, pk) ==
  IF MissingStr(a.input_mint) THEN
    Ultra_Return(Ultra_Failure(<< "input_mint cannot be empty" >>), c)
  ELSE IF MissingStr(a.output_mint) THEN
    Ultra_Return(Ultra_Failure(<< "output_mint cannot be empty" >>), c)
  ELSE IF MissingAmt(a.amount) THEN
    Ultra_Return(Ultra_Failure(<< "amount cannot be empty" >>), c)
  ELSE IF ~ParseInt(a.amount).ok THEN
    Ultra_Return(Ultra_Failure(<< "amount must be a valid number" >>), c)
  ELSE IF ParseInt(a.amount).val <= 0 THEN
    Ultra_Return(Ultra_Failure(<< "amount must be a positive number" >>), c)
  ELSE LET kp == Ultra_get_keypair(c, pk)
       IN IF ~kp.ok THEN
            Ultra_Return(Ultra_Failure(<< "Failed to get swap quote: " >> \o kp.err),
                         kp.cache)
          ELSE Ultra_Request(
                 [method |-> "GET", url |-> << Ultra_base_url, "/order" >>,
                  params |-> [inputMint |-> a.input_mint, outputMint |-> a.output_mint,
                              amount |-> a.amount, taker |-> PubkeyStr(kp.val),
                              referralAccount |-> DEV_REFERRER_WALLET,
                              referralFee |-> REFERRAL_FEE]],
                 NoLocals, kp.cache)

Ultra_execute_swap_transaction(a, c, pk) ==
  IF MissingCodes(a.transaction) THEN
    Ultra_Return(Ultra_Failure(<< "Transaction cannot be empty" >>), c)
  ELSE IF MissingStr(a.request_id) THEN
    Ultra_Return(Ultra_Failure(<< "Request ID cannot be empty" >>), c)
  ELSE LET sg == Ultra_sign_transaction(a.transaction, c, pk)
       IN IF ~sg.ok THEN
            Ultra_Return(Ultra_Failure(<< "Failed to sign transaction: " >> \o sg.err),
                         sg.cache)
          ELSE Ultra_Request(
                 [method |-> "POST", url |-> << Ultra_base_url, "/execute" >>,
                  json |-> [signedTransaction |-> sg.val, requestId |-> a.request_id]],
                 NoLocals, sg.cache)

\* Mutant: the keypair's address is used whatever the caller passed.
Ultra_get_balances_m(a, c, pk) ==
  LET kp == Ultra_get_keypair(c, pk)
  IN IF ~kp.ok THEN
       Ultra_Return(Ultra_Failure(<< "Failed to get balances: " >> \o kp.err), kp.cache)
     ELSE Ultra_Request(
            [method |-> "GET",
             url |-> << Ultra_base_url, "/balances/", PubkeyStr(kp.val) >>],
            [wallet_address |-> PubkeyStr(kp.val)], kp.cache)

Ultra_get_balances(a, c, pk) ==
  IF a.wallet_address = NoneVal THEN
    LET kp == Ultra_get_keypair(c, pk)
    IN IF ~kp.ok THEN
         Ultra_Return(Ultra_Failure(<< "Failed to get balances: " >> \o kp.err), kp.cache)
       ELSE Ultra_Request(
              [method |-> "GET",
               url |-> << Ultra_base_url, "/balances/", PubkeyStr(kp.val) >>],
              [wallet_address |-> PubkeyStr(kp.val)], kp.cache)
  ELSE IF IsBlankStr(a.wallet_address) THEN
    Ultra_Return(Ultra_Failure(<< "wallet_address cannot be empty" >>), c)
  ELSE Ultra_Request(
         [method |-> "GET", url |-> << Ultra_base_url, "/balances/", a.wallet_address >>],
         [wallet_address |-> a.wallet_address], c)

Ultra_get_shield(a, c) ==
  IF MissingStr(a.mints) THEN
    Ultra_Return(Ultra_Failure(<< "mints parameter cannot be empty" >>), c)
  ELSE Ultra_Request([method |-> "GET", url |-> << Ultra_base_url, "/shield" >>,
                      params |-> [mints |-> a.mints]], NoLocals, c)

Ultra_search_token(a, c) ==
  IF MissingStr(a.query) THEN
    Ultra_Return(Ultra_Failure(<< "search query cannot be empty" >>), c)
  ELSE Ultra_Request([method |-> "GET", url |-> << Ultra_base_url, "/search" >>,
                      params |-> [query |-> a.query]], [query |-> a.query], c)

\* The operations the two clients share.
SharedFacadeOps ==
  { "get_swap_quote", "execute_swap_transaction", "get_balances", "get_shield",
    "search_token" }

Ultra_Body(o, a, c, pk) ==
  CASE o = "get_swap_quote" -> Ultra_get_swap_quote(a, c, pk)
    [] o = "execute_swap_transaction" -> Ultra_execute_swap_transaction(a, c, pk)
    [] o = "get_balances" -> Ultra_get_balances(a, c, pk)
    [] o = "get_shield" -> Ultra_get_shield(a, c)
    [] o = "search_token" -> Ultra_search_token(a, c)

\* The envelope a JupiterUltraAPI operation returns once the transport has
\* answered with out.
Ultra_Envelope(o, keep, out, cfg) ==
  LET h == Ultra_make_http_request(out, NoInt, cfg)
  IN IF ~h.ok THEN
       Ultra_Failure(CASE o = "get_swap_quote" -> << "Failed to get swap quote: " >> \o h.err
                       [] o = "execute_swap_transaction" -> h.err
                       [] o = "get_balances" -> << "Failed to get balances: " >> \o h.err
                       [] o = "get_shield" ->
                            << "Failed to get shield information: " >> \o h.err
                       [] o = "search_token" -> << "Failed to search tokens: " >> \o h.err)
     ELSE IF o = "get_balances" THEN
       [success |-> TRUE, wallet_address |-> keep.wallet_address, data |-> h.val]
     ELSE IF o = "search_token" THEN
       [success |-> TRUE, query |-> keep.query, data |-> h.val]
     ELSE [success |-> TRUE, data |-> h.val]

\* One step of the JupiterAPI client, compared with what JupiterUltraAPI
\* does from the same configuration and cache on the same call and the same
\* remote outcome.
UltraStep ==
  ~client_side_mode =>
    /\ (pc = "idle" /\ op' \in SharedFacadeOps) =>
         LET u == Ultra_Body(op', args', _keypair, private_key)
         IN /\ _keypair' = u.cache
            /\ _solana_client' = _solana_client
            /\ u.sent =>
                 pc' = "waiting" /\ request' = u.req /\ locals' = u.keep
            /\ ~u.sent =>
                 pc' = "done" /\ request' = NoRequest /\ result' = Returned(u.env)
    /\ (pc = "waiting" /\ pc' = "done" /\ op \in SharedFacadeOps) =>
         /\ result' = Returned(Ultra_Envelope(op, locals, response', request_timeout))
         /\ _keypair' = _keypair
    /\ (pc = "waiting" /\ pc' = "done" /\ op = "make_http_request") =>
         LET h == Ultra_make_http_request(response', args.timeout, request_timeout)
         IN result' = IF h.ok THEN Returned(h.val) ELSE Raised(h.err)
    /\ (pc = "idle" /\ op' = "get_keypair") =>
         LET k == Ultra_get_keypair(_keypair, private_key)
         IN /\ _keypair' = k.cache
            /\ result' = IF k.ok THEN Returned([keypair |-> k.val]) ELSE Raised(k.err)
    /\ (pc = "idle" /\ op' = "sign_transaction") =>
         LET g == Ultra_sign_transaction(args'.transaction_base64, _keypair, private_key)
         IN /\ _keypair' = g.cache
            /\ result' = IF g.ok THEN Returned(g.val) ELSE Raised(g.err)
    /\ (pc = "idle" /\ op' = "reset_cached_clients") =>
         /\ _keypair' = 0
         /\ _solana_client' = FALSE
         /\ result' = Returned(NoneVal)

\* C30: for each shared operation (get_swap_quote, execute_swap_transaction,
\* get_balances, get_shield, search_token, sign_transaction, get_keypair,
\* reset_cached_clients, make_http_request) JupiterUltraAPI and JupiterAPI,
\* from the same configuration and cache, on the same call and the same
\* remote outcome, make the same request, return the same result and leave
\* the same cache.
C30_UltraSubset == [][UltraStep]_vars

\* C30 witness: a swap executed with a signed transaction and answered, on
\* a client whose keypair was resolved by the call.
C30_Witness ==
  /\ ~client_side_mode
  /\ pc = "done"
  /\ op = "execute_swap_transaction"
  /\ decode_calls > 0
  /\ request # NoRequest
  /\ request.url = << Ultra_base_url, "/execute" >>
  /\ IsSuccess(result)

\* C30 second witness: balances asked for an explicit address and refused
\* by the remote side.
C30_WitnessBalances ==
  /\ ~client_side_mode
  /\ pc = "done"
  /\ op = "get_balances"
  /\ args.wallet_address = "tokA"
  /\ response.kind = "status"
  /\ IsFailure(result)

=============================================================================
